---------------------------- MODULE Spec2Model ----------------------------
(***************************************************************************)
(* A model of go-flac's decoder (src/flac/flac.go): the FlacDecoder        *)
(* struct, its public methods (Open, Close, DecodeSamples, Seek) and the   *)
(* three callbacks libFLAC invokes on it.  The libFLAC stream decoder and  *)
(* the drgolem/ringbuffer package are outside the repository; they are     *)
(* modelled from their interface (spec.md sections 4.1 and 6).             *)
(***************************************************************************)
EXTENDS Integers, Sequences, FiniteSets, TLC

(***************************************************************************)
(* Bounds of the model.                                                    *)
(***************************************************************************)
\* ringBufferCapacity is 2*2*4*4096 = 65536 bytes in flac.go:104; the model
\* scales it down together with the frame sizes (a frame of MaxBlock samples
\* of 2 channels at 3 bytes is larger than the ring, as a 4096-sample frame
\* of 6 channels at 24 bits is larger than 65536 bytes).
RingCap == 8
\* the longest stream, in samples per channel
MaxSamples == 2
\* the largest block size (samples per frame) the backend produces
MaxBlock == 2
\* the largest count passed to DecodeSamples
MaxReq == 3

OutDepths == {16, 24}          \* depths given to NewFlacFrameDecoder
SrcDepths == {16, 24}          \* bits per sample of the streams opened
ChannelCounts == {1, 2}
\* sample rates of the streams opened
Rates == {44100, 48000}

(***************************************************************************)
(* Integer helpers: Go's fixed-width integers.                             *)
(***************************************************************************)
Pow2(n) == 2 ^ n

\* byte(x): the low 8 bits of x
byte(x) == x % 256

\* x >> n on a signed integer (arithmetic shift)
shr(x, n) == x \div Pow2(n)

\* the value of the low `bits` bits of x read as a two's-complement integer
\* (the model's integers are themselves 32 bits wide)
signed(x, bits) ==
    IF bits >= 32 THEN x
    ELSE LET m == x % Pow2(bits)
         IN  IF m >= Pow2(bits - 1) THEN m - Pow2(bits) ELSE m

\* n | ^0xffffff on an int32: the low 24 bits kept, every higher bit set
orHighBits(n) == (n % Pow2(24)) - Pow2(24)

Min(a, b) == IF a < b THEN a ELSE b

RECURSIVE Concat(_)
Concat(ss) == IF ss = << >> THEN << >> ELSE Head(ss) \o Concat(Tail(ss))

IsPrefix(s, t) == Len(s) <= Len(t) /\ SubSeq(t, 1, Len(s)) = s

(***************************************************************************)
(* The ring buffer (github.com/drgolem/ringbuffer, spec.md 4.1), as the    *)
(* sequence of its unread bytes.                                           *)
(***************************************************************************)
AvailableRead(rb) == Len(rb)

AvailableWrite(rb) == RingCap - Len(rb)

\* Write(bytes): all or nothing
RingWriteOk(rb, bytes) == Len(bytes) <= AvailableWrite(rb)

RingWrite(rb, bytes) == IF RingWriteOk(rb, bytes) THEN rb \o bytes ELSE rb

\* Read(dest) with len(dest) = n: the bytes copied out and what is left
RingReadCount(rb, n) == Min(n, AvailableRead(rb))

RingReadBytes(rb, n) == SubSeq(rb, 1, RingReadCount(rb, n))

RingAfterRead(rb, n) == SubSeq(rb, RingReadCount(rb, n) + 1, Len(rb))

RingReset(rb) == << >>

(***************************************************************************)
(* The sample packer of the write callback.                                *)
(***************************************************************************)
\* int32toInt24LEBytes (flac.go:547-554)
int32toInt24LEBytes(n) ==
    LET n2 == IF (n \div Pow2(23)) % 2 = 1
              THEN orHighBits(n)
              ELSE n
    IN  << byte(n2), byte(shr(n2, 8)), byte(shr(n2, 16)) >>

\* the packer keeping the two low-order bytes of a 24-bit sample at output
\* depth 16
SampleBytes_LowBytes(sample, streamBytesPerSample, maxOutputSampleBitDepth) ==
    CASE streamBytesPerSample = 3 ->
            IF maxOutputSampleBitDepth = 24
            THEN int32toInt24LEBytes(sample)
            ELSE SubSeq(int32toInt24LEBytes(sample), 1, 2)
      [] streamBytesPerSample = 2 -> << byte(sample), byte(shr(sample, 8)) >>
      [] streamBytesPerSample = 1 -> << byte(sample) >>
      [] streamBytesPerSample = 4 ->
            << byte(sample), byte(shr(sample, 8)),
               byte(shr(sample, 16)), byte(shr(sample, 24)) >>
      [] OTHER -> << >>

\* The bytes one sample is written as (the switch of flac.go:469-518);
\* << >> stands for the default branch, which writes nothing.
SampleBytes(sample, streamBytesPerSample, maxOutputSampleBitDepth) ==
    CASE streamBytesPerSample = 3 ->
            IF maxOutputSampleBitDepth = 24
            THEN int32toInt24LEBytes(sample)
            ELSE SubSeq(int32toInt24LEBytes(sample), 2, 3)
      [] streamBytesPerSample = 2 -> << byte(sample), byte(shr(sample, 8)) >>
      [] streamBytesPerSample = 1 -> << byte(sample) >>
      [] streamBytesPerSample = 4 ->
            << byte(sample), byte(shr(sample, 8)),
               byte(shr(sample, 16)), byte(shr(sample, 24)) >>
      [] OTHER -> << >>

\* PCMToInt32 without the sign extension of its 24-bit case
PCMSample_NoSignExtend(pcm, off, bytesPerSample) ==
    CASE bytesPerSample = 1 -> signed(pcm[off + 1], 8)
      [] bytesPerSample = 2 ->
            signed(signed(pcm[off + 1], 16) + signed(pcm[off + 2] * 256, 16), 16)
      [] bytesPerSample = 3 ->
            pcm[off + 1] + pcm[off + 2] * 256 + pcm[off + 3] * 65536
      [] bytesPerSample = 4 ->
            pcm[off + 1] + pcm[off + 2] * 256 + pcm[off + 3] * 65536
                   + signed(pcm[off + 4], 8) * 16777216
      [] OTHER -> 0

\* PCMToInt32 (the encoder's utility): one sample from its little-endian
\* bytes; a depth outside 8/16/24/32 leaves the output element at 0.
PCMSample(pcm, off, bytesPerSample) ==
    CASE bytesPerSample = 1 -> signed(pcm[off + 1], 8)
      [] bytesPerSample = 2 ->
            signed(signed(pcm[off + 1], 16) + signed(pcm[off + 2] * 256, 16), 16)
      [] bytesPerSample = 3 ->
            LET v == pcm[off + 1] + pcm[off + 2] * 256 + pcm[off + 3] * 65536
            IN  IF (v \div Pow2(23)) % 2 = 1
                THEN orHighBits(v)
                ELSE v
      [] bytesPerSample = 4 ->
            pcm[off + 1] + pcm[off + 2] * 256 + pcm[off + 3] * 65536
                   + signed(pcm[off + 4], 8) * 16777216
      [] OTHER -> 0

PCMToInt32(pcm, bitsPerSample, outLen) ==
    LET bytesPerSample == bitsPerSample \div 8
        numSamples == Min(Len(pcm) \div bytesPerSample, outLen)
    IN  [i \in 1..numSamples |-> PCMSample(pcm, (i - 1) * bytesPerSample, bytesPerSample)]


(***************************************************************************)
(* The streams the backend can be given.  A stream holds K samples per     *)
(* channel, decoded in frames of B samples (the last one shorter); total   *)
(* is the STREAMINFO total_samples field (0 when unknown).  fault names    *)
(* what the backend meets when it starts decoding at sample fault.at:      *)
(*   "errcb"  an error callback (lost sync), after which decoding goes on; *)
(*   "errcb2" two error callbacks (lost sync, then bad header) in one      *)
(*            decode-one-frame call, after which decoding goes on;         *)
(*   "fail"   decode-one-frame fails, the decoder state becomes ABORTED;    *)
(*   "trunc"  the input ends early: decode-one-frame fails at END_OF_STREAM*)
(***************************************************************************)
FaultKinds == {"errcb", "errcb2", "fail", "trunc"}

NoFault == [kind |-> "none", at |-> 0]

Faults(K, B) ==
    {NoFault} \cup
    {[kind |-> k, at |-> p] : k \in FaultKinds,
                              p \in {q \in 0..K : q % B = 0 \/ q = K}}

BlockSizes(K) == 1..(IF K = 0 THEN 1 ELSE Min(K, MaxBlock))

\* every fault-free stream, of known and of unknown length
CleanStreams ==
    UNION { { [K |-> K, B |-> B, channels |-> ch, bps |-> b, rate |-> r,
               total |-> t, fault |-> NoFault] :
                B \in BlockSizes(K), ch \in ChannelCounts, b \in SrcDepths,
                r \in Rates, t \in {K, 0} }
            : K \in 0..MaxSamples }

\* the streams with a fault, at the depth the decoder was created for and
\* at one rate
FaultyStreams(depth) ==
    UNION { UNION { { [K |-> K, B |-> B, channels |-> ch, bps |-> depth, rate |-> 44100,
                       total |-> K, fault |-> ft] :
                        ch \in ChannelCounts, ft \in Faults(K, B) \ {NoFault} }
                    : B \in BlockSizes(K) }
            : K \in 0..MaxSamples }

Streams(depth) == CleanStreams \cup FaultyStreams(depth)

\* The decoded value of sample i (from 0) of channel c (from 0): distinct
\* for distinct (i, c), of both signs, within the stream's depth.
SampleMult(bps) ==
    CASE bps = 8 -> 37 [] bps = 16 -> 9029 [] bps = 24 -> 2311527 [] OTHER -> 16843009

StreamSample(s, i, c) == signed((i * 2 + c + 1) * SampleMult(s.bps), s.bps)

\* the interleaved samples i0 .. i0+n-1 of stream s
StreamSamples(s, i0, n) ==
    [k \in 1..(n * s.channels) |->
        StreamSample(s, i0 + ((k - 1) \div s.channels), (k - 1) % s.channels)]

\* value v as `width` little-endian two's-complement bytes
LEBytes(v, width) == [j \in 1..width |-> byte(shr(v, 8 * (j - 1)))]

\* the bytes of samples i0 .. i0+n-1 of stream s at `width` bytes per sample
StreamBytes(s, i0, n, width) ==
    Concat([k \in 1..(n * s.channels) |-> LEBytes(StreamSamples(s, i0, n)[k], width)])

(***************************************************************************)
(* State.                                                                  *)
(***************************************************************************)
\* hist is "closed" (no stream open), "opened" (Open succeeded and only
\* DecodeSamples was called since), "sought" (a Seek reached the backend and
\* succeeded, and only DecodeSamples was called since), "seek_failed" (the
\* last Seek that reached the backend failed), "open_failed" or "deleted"
\* (Delete was called).  flac.state is "deleted" when d.decoder is nil.
VARIABLES
    dec,          \* the FlacDecoder struct (flac.go:81-101) but its ring buffer
    ringBuffer,   \* dec.ringBuffer: the unread bytes, oldest first
    flac,         \* the libFLAC stream decoder: its state and next sample
    stream,       \* the stream held by the file that Open is given
    lastCall,     \* the last public call: its name and the error it returned
    hist,         \* what has been called since the decoder was last opened
    status,       \* "ok", or how the calling goroutine ended: "panic", "hang", "segv"
    pk,           \* the sample packer taken alone: a sample, its bytes, its value read back
    ring,         \* the ring buffer taken alone: its storage and its two cursors
    rbHist,       \* the bytes written to and read from ring since its last reset
    enc,          \* the FlacEncoder struct: mu, outBuf, streamInfo
    encRun        \* the goroutines using enc: where each is, what was pushed and taken

\* the decoder and what it is called with
decVars == << dec, ringBuffer, flac, stream, lastCall, hist, status >>

\* the components that are exercised on their own
sideVars == << pk, ring, rbHist, enc, encRun >>

vars == << dec, ringBuffer, flac, stream, lastCall, hist, status,
           pk, ring, rbHist, enc, encRun >>

\* the components exercised on their own, not in use
SideIdle ==
    /\ pk = [phase |-> "idle"]
    /\ ring = [phase |-> "idle"]
    /\ rbHist = [phase |-> "idle"]
    /\ enc = [phase |-> "idle"]
    /\ encRun = [phase |-> "idle"]

\* NewFlacFrameDecoder (flac.go:123-145)
NewFlacFrameDecoder(maxOutputSampleBitDepth) ==
    [ rate |-> 0, channels |-> 0, bitsPerSample |-> 0,
      outputBytesPerSample |-> maxOutputSampleBitDepth \div 8,
      currentSample |-> 0, totalSamples |-> 0,
      maxOutputSampleBitDepth |-> maxOutputSampleBitDepth,
      streamBytesPerSample |-> 0,
      lastError |-> "nil" ]

Call(op, err) == [op |-> op, err |-> err]

Init ==
    /\ \E depth \in OutDepths :
          /\ dec = NewFlacFrameDecoder(depth)
          /\ stream \in Streams(depth)
    /\ ringBuffer = << >>
    /\ flac = [state |-> "uninit", next |-> 0]
    /\ lastCall = Call("new", "nil")
    /\ hist = "closed"
    /\ status = "ok"
    /\ SideIdle

(***************************************************************************)
(* The callbacks.                                                          *)
(***************************************************************************)
\* setError (flac.go:400-404)
setError(d, err) == IF d.lastError = "nil" THEN [d EXCEPT !.lastError = err] ELSE d

\* decoderErrorCallback (flac.go:407-433)
ErrorStatusString(st) ==
    CASE st = 0 -> "lost sync"
      [] st = 1 -> "bad header"
      [] st = 2 -> "frame CRC mismatch"
      [] st = 3 -> "unparseable stream"
      [] st = 4 -> "bad metadata"
      [] st = 5 -> "out of bounds"
      [] st = 6 -> "missing frame"
      [] OTHER -> "unknown error status"

decoderErrorCallback(d, st) == [d EXCEPT !.lastError = ErrorStatusString(st)]

\* decoderMetadataCallback (flac.go:526-537), for a STREAMINFO block
decoderMetadataCallback(d, s) ==
    [d EXCEPT !.channels = s.channels,
              !.bitsPerSample = s.bps,
              !.rate = s.rate,
              !.streamBytesPerSample = (s.bps + 7) \div 8,
              !.totalSamples = s.total]

\* the loop running over the channels first: channel by channel, each with
\* all its samples
RECURSIVE WriteSamples_ChannelMajor(_, _, _, _, _, _)
WriteSamples_ChannelMajor(d, rb, s, from, count, k) ==
    IF k >= count * d.channels
    THEN [d |-> d, rb |-> rb, st |-> "continue"]
    ELSE LET i == k % count
             ch == k \div count
             sample == StreamSample(s, from + i, ch)
             bytes == SampleBytes(sample, d.streamBytesPerSample, d.maxOutputSampleBitDepth)
         IN  IF d.streamBytesPerSample \notin {1, 2, 3, 4}
             THEN [d |-> setError(d, "unsupported stream bytes per sample"),
                   rb |-> rb, st |-> "abort"]
             ELSE IF ~RingWriteOk(rb, bytes)
             THEN [d |-> setError(d, "insufficient space"), rb |-> rb, st |-> "abort"]
             ELSE WriteSamples_ChannelMajor(d, RingWrite(rb, bytes), s, from, count, k + 1)

\* The interleaving loop of decoderWriteCallback (flac.go:465-520), from the
\* k-th (sample, channel) pair on, over the frame's samples from .. from+count-1.
RECURSIVE WriteSamples(_, _, _, _, _, _)
WriteSamples(d, rb, s, from, count, k) ==
    IF k >= count * d.channels
    THEN [d |-> d, rb |-> rb, st |-> "continue"]
    ELSE LET i == k \div d.channels
             ch == k % d.channels
             sample == StreamSample(s, from + i, ch)
             bytes == SampleBytes(sample, d.streamBytesPerSample, d.maxOutputSampleBitDepth)
         IN  IF d.streamBytesPerSample \notin {1, 2, 3, 4}
             THEN [d |-> setError(d, "unsupported stream bytes per sample"),
                   rb |-> rb, st |-> "abort"]
             ELSE IF ~RingWriteOk(rb, bytes)
             THEN [d |-> setError(d, "insufficient space"), rb |-> rb, st |-> "abort"]
             ELSE WriteSamples(d, RingWrite(rb, bytes), s, from, count, k + 1)

\* decoderWriteCallback without the check of flac.go:447-452
decoderWriteCallback_NoChannelCheck(d, rb, s, from, count) ==
    IF count = 0
    THEN [d |-> d, rb |-> rb, st |-> "continue"]
    ELSE WriteSamples(d, rb, s, from, count, 0)

\* decoderWriteCallback (flac.go:436-523)
decoderWriteCallback(d, rb, s, from, count) ==
    IF count = 0
    THEN [d |-> d, rb |-> rb, st |-> "continue"]
    ELSE IF d.channels = 0
    THEN [d |-> setError(d, "channels not initialized"), rb |-> rb, st |-> "abort"]
    ELSE WriteSamples(d, rb, s, from, count, 0)

(***************************************************************************)
(* The backend (libFLAC's stream decoder), from spec.md section 6.         *)
(***************************************************************************)
FrameEnd(s, p) == Min(((p \div s.B) + 1) * s.B, s.K)

FaultAt(s, p) == IF s.fault.kind # "none" /\ s.fault.at = p THEN s.fault.kind ELSE "none"

\* FLAC__stream_decoder_process_single: decode one frame.
ProcessSingle(d, rb, f, s) ==
    IF f.state \in {"eos", "aborted"}
    THEN [d |-> d, rb |-> rb, f |-> f, res |-> 1]
    ELSE IF f.state # "sync"
    THEN [d |-> d, rb |-> rb, f |-> f, res |-> 0]
    ELSE IF FaultAt(s, f.next) = "fail"
    THEN [d |-> d, rb |-> rb, f |-> [f EXCEPT !.state = "aborted"], res |-> 0]
    ELSE IF FaultAt(s, f.next) = "trunc"
    THEN [d |-> d, rb |-> rb, f |-> [f EXCEPT !.state = "eos"], res |-> 0]
    ELSE LET d1 == CASE FaultAt(s, f.next) = "errcb" -> decoderErrorCallback(d, 0)
                     [] FaultAt(s, f.next) = "errcb2" ->
                            decoderErrorCallback(decoderErrorCallback(d, 0), 1)
                     [] OTHER -> d
         IN  IF f.next >= s.K
             THEN [d |-> d1, rb |-> rb, f |-> [f EXCEPT !.state = "eos"], res |-> 1]
             ELSE LET w == decoderWriteCallback(d1, rb, s, f.next, FrameEnd(s, f.next) - f.next)
                  IN  IF w.st = "abort"
                      THEN [d |-> w.d, rb |-> w.rb,
                            f |-> [state |-> "aborted", next |-> FrameEnd(s, f.next)],
                            res |-> 0]
                      ELSE [d |-> w.d, rb |-> w.rb,
                            f |-> [state |-> "sync", next |-> FrameEnd(s, f.next)],
                            res |-> 1]

\* FLAC__stream_decoder_seek_absolute; ev is what the input allows:
\* "ok", "ok_errcb" (an error callback on the way) or "fail".
SeekAbsolute(d, rb, f, s, target, ev) ==
    IF f.state \notin {"sync", "eos"}
    THEN [d |-> d, rb |-> rb, f |-> f, res |-> 0]
    ELSE IF ev = "fail" \/ target >= s.K
    THEN [d |-> d, rb |-> rb, f |-> [f EXCEPT !.state = "seek_error"], res |-> 0]
    ELSE LET d1 == IF ev = "ok_errcb" THEN decoderErrorCallback(d, 0) ELSE d
             w == decoderWriteCallback(d1, rb, s, target, FrameEnd(s, target) - target)
         IN  IF w.st = "abort"
             THEN [d |-> w.d, rb |-> w.rb,
                   f |-> [state |-> "seek_error", next |-> FrameEnd(s, target)], res |-> 0]
             ELSE [d |-> w.d, rb |-> w.rb,
                   f |-> [state |-> "sync", next |-> FrameEnd(s, target)], res |-> 1]

(***************************************************************************)
(* DecodeSamples (flac.go:252-366).                                        *)
(***************************************************************************)
\* maxInt = int(^uint(0) >> 1) (flac.go:263), on a platform with 32-bit int
MaxInt == 2147483647

Ret(d, rb, f, n, err, audio, calls, end) ==
    [d |-> d, rb |-> rb, f |-> f, n |-> n, err |-> err,
     audio |-> audio, calls |-> calls, end |-> end]

\* The loop of flac.go:279-363, from the top of one iteration.  audio is what
\* has been copied to the destination so far, calls the number of backend
\* decode-one-frame calls made.  end = "panic": the slice expression of
\* flac.go:306 is out of range; end = "hang": the loop never exits;
\* end = "segv": d.decoder is nil after Delete and the backend's get_state
\* (flac.go:288) reads through the null pointer.
\* an error returned with the latch left as it is
clearError_Keep(d) == d

\* the latch emptied as its error is returned (flac.go:283, 337, 360)
clearError(d) == [d EXCEPT !.lastError = "nil"]

\* the end-of-stream return with every sample counted
endOfStreamErr_AlwaysEOF(samplesRead) == "EOF"

\* the error returned at end of stream (flac.go:317-322 and 348-351)
endOfStreamErr(samplesRead) == IF samplesRead > 0 THEN "nil" ELSE "EOF"

\* the loop reporting every failure of the backend as the end of the stream
RECURSIVE DecodeLoop_FailureAsEOF(_, _, _, _, _, _, _, _, _)
DecodeLoop_FailureAsEOF(d, rb, f, s, samplesToRead, samplesRead, audio, calls, audioLen) ==
    IF samplesToRead <= 0
    THEN Ret(d, rb, f, samplesRead, "nil", audio, calls, "ok")
    ELSE IF d.lastError # "nil"
    THEN Ret(clearError(d), rb, f, samplesRead, d.lastError, audio, calls, "ok")
    ELSE IF f.state = "deleted"
    THEN Ret(d, rb, f, samplesRead, "segv", audio, calls, "segv")
    ELSE
    LET state == f.state
        frameBytes == d.channels * d.outputBytesPerSample
        available == AvailableRead(rb)
        availableSamples == available \div frameBytes
        doRead == state = "eos" \/ availableSamples >= samplesToRead
        offset == samplesRead * frameBytes
        bytesToRead == IF ~doRead THEN 0
                       ELSE IF state = "eos" THEN available
                       ELSE samplesToRead * frameBytes
        outOfRange == bytesToRead > 0 /\ offset + bytesToRead > audioLen
        n == RingReadCount(rb, bytesToRead)
        readSamples == n \div frameBytes
        rb1 == RingAfterRead(rb, bytesToRead)
        audio1 == audio \o RingReadBytes(rb, bytesToRead)
        samplesRead1 == samplesRead + readSamples
        samplesToRead1 == samplesToRead - readSamples
        d1 == [d EXCEPT !.currentSample = @ + readSamples]
    IN  IF outOfRange
        THEN Ret(d, rb, f, samplesRead, "panic", audio, calls, "panic")
        ELSE IF doRead /\ state = "eos"
        THEN Ret(d1, rb1, f, samplesRead1, endOfStreamErr(samplesRead1), audio1, calls, "ok")
        ELSE IF doRead /\ samplesToRead1 <= 0
        THEN Ret(d1, rb1, f, samplesRead1, "nil", audio1, calls, "ok")
        ELSE
        LET p == ProcessSingle(d1, rb1, f, s)
        IN  IF p.res = 0
            THEN IF p.d.lastError # "nil"
                 THEN Ret(clearError(p.d), p.rb, p.f, samplesRead1,
                          p.d.lastError, audio1, calls + 1, "ok")
                 ELSE IF p.f.state = "eos"
                 THEN IF AvailableRead(p.rb) > 0
                      THEN DecodeLoop_FailureAsEOF(p.d, p.rb, p.f, s, samplesToRead1, samplesRead1,
                                      audio1, calls + 1, audioLen)
                      ELSE Ret(p.d, p.rb, p.f, samplesRead1, endOfStreamErr(samplesRead1),
                               audio1, calls + 1, "ok")
                 ELSE Ret(p.d, p.rb, p.f, samplesRead1,
                          endOfStreamErr(samplesRead1), audio1, calls + 1, "ok")
            ELSE IF p.d.lastError # "nil"
            THEN Ret(clearError(p.d), p.rb, p.f, samplesRead1,
                     p.d.lastError, audio1, calls + 1, "ok")
            ELSE IF p.rb = rb1 /\ p.f = f
            THEN Ret(p.d, p.rb, p.f, samplesRead1, "hang", audio1, calls + 1, "hang")
            ELSE DecodeLoop_FailureAsEOF(p.d, p.rb, p.f, s, samplesToRead1, samplesRead1,
                            audio1, calls + 1, audioLen)

\* the loop advancing the position by the count asked for, not the count read
RECURSIVE DecodeLoop_AdvanceByRequest(_, _, _, _, _, _, _, _, _)
DecodeLoop_AdvanceByRequest(d, rb, f, s, samplesToRead, samplesRead, audio, calls, audioLen) ==
    IF samplesToRead <= 0
    THEN Ret(d, rb, f, samplesRead, "nil", audio, calls, "ok")
    ELSE IF d.lastError # "nil"
    THEN Ret(clearError(d), rb, f, samplesRead, d.lastError, audio, calls, "ok")
    ELSE IF f.state = "deleted"
    THEN Ret(d, rb, f, samplesRead, "segv", audio, calls, "segv")
    ELSE
    LET state == f.state
        frameBytes == d.channels * d.outputBytesPerSample
        available == AvailableRead(rb)
        availableSamples == available \div frameBytes
        doRead == state = "eos" \/ availableSamples >= samplesToRead
        offset == samplesRead * frameBytes
        bytesToRead == IF ~doRead THEN 0
                       ELSE IF state = "eos" THEN available
                       ELSE samplesToRead * frameBytes
        outOfRange == bytesToRead > 0 /\ offset + bytesToRead > audioLen
        n == RingReadCount(rb, bytesToRead)
        readSamples == n \div frameBytes
        rb1 == RingAfterRead(rb, bytesToRead)
        audio1 == audio \o RingReadBytes(rb, bytesToRead)
        samplesRead1 == samplesRead + readSamples
        samplesToRead1 == samplesToRead - readSamples
        d1 == [d EXCEPT !.currentSample = @ + (IF doRead THEN samplesToRead ELSE 0)]
    IN  IF outOfRange
        THEN Ret(d, rb, f, samplesRead, "panic", audio, calls, "panic")
        ELSE IF doRead /\ state = "eos"
        THEN Ret(d1, rb1, f, samplesRead1, endOfStreamErr(samplesRead1), audio1, calls, "ok")
        ELSE IF doRead /\ samplesToRead1 <= 0
        THEN Ret(d1, rb1, f, samplesRead1, "nil", audio1, calls, "ok")
        ELSE
        LET p == ProcessSingle(d1, rb1, f, s)
        IN  IF p.res = 0
            THEN IF p.d.lastError # "nil"
                 THEN Ret(clearError(p.d), p.rb, p.f, samplesRead1,
                          p.d.lastError, audio1, calls + 1, "ok")
                 ELSE IF p.f.state = "eos"
                 THEN IF AvailableRead(p.rb) > 0
                      THEN DecodeLoop_AdvanceByRequest(p.d, p.rb, p.f, s, samplesToRead1, samplesRead1,
                                      audio1, calls + 1, audioLen)
                      ELSE Ret(p.d, p.rb, p.f, samplesRead1, endOfStreamErr(samplesRead1),
                               audio1, calls + 1, "ok")
                 ELSE Ret(p.d, p.rb, p.f, samplesRead1,
                          "decode samples error: " \o p.f.state, audio1, calls + 1, "ok")
            ELSE IF p.d.lastError # "nil"
            THEN Ret(clearError(p.d), p.rb, p.f, samplesRead1,
                     p.d.lastError, audio1, calls + 1, "ok")
            ELSE IF p.rb = rb1 /\ p.f = f
            THEN Ret(p.d, p.rb, p.f, samplesRead1, "hang", audio1, calls + 1, "hang")
            ELSE DecodeLoop_AdvanceByRequest(p.d, p.rb, p.f, s, samplesToRead1, samplesRead1,
                            audio1, calls + 1, audioLen)

RECURSIVE DecodeLoop(_, _, _, _, _, _, _, _, _)
DecodeLoop(d, rb, f, s, samplesToRead, samplesRead, audio, calls, audioLen) ==
    IF samplesToRead <= 0
    THEN Ret(d, rb, f, samplesRead, "nil", audio, calls, "ok")
    ELSE IF d.lastError # "nil"
    THEN Ret(clearError(d), rb, f, samplesRead, d.lastError, audio, calls, "ok")
    ELSE IF f.state = "deleted"
    THEN Ret(d, rb, f, samplesRead, "segv", audio, calls, "segv")
    ELSE
    LET state == f.state
        frameBytes == d.channels * d.outputBytesPerSample
        available == AvailableRead(rb)
        availableSamples == available \div frameBytes
        doRead == state = "eos" \/ availableSamples >= samplesToRead
        offset == samplesRead * frameBytes
        bytesToRead == IF ~doRead THEN 0
                       ELSE IF state = "eos" THEN available
                       ELSE samplesToRead * frameBytes
        outOfRange == bytesToRead > 0 /\ offset + bytesToRead > audioLen
        n == RingReadCount(rb, bytesToRead)
        readSamples == n \div frameBytes
        rb1 == RingAfterRead(rb, bytesToRead)
        audio1 == audio \o RingReadBytes(rb, bytesToRead)
        samplesRead1 == samplesRead + readSamples
        samplesToRead1 == samplesToRead - readSamples
        d1 == [d EXCEPT !.currentSample = @ + readSamples]
    IN  IF outOfRange
        THEN Ret(d, rb, f, samplesRead, "panic", audio, calls, "panic")
        ELSE IF doRead /\ state = "eos"
        THEN Ret(d1, rb1, f, samplesRead1, endOfStreamErr(samplesRead1), audio1, calls, "ok")
        ELSE IF doRead /\ samplesToRead1 <= 0
        THEN Ret(d1, rb1, f, samplesRead1, "nil", audio1, calls, "ok")
        ELSE
        LET p == ProcessSingle(d1, rb1, f, s)
        IN  IF p.res = 0
            THEN IF p.d.lastError # "nil"
                 THEN Ret(clearError(p.d), p.rb, p.f, samplesRead1,
                          p.d.lastError, audio1, calls + 1, "ok")
                 ELSE IF p.f.state = "eos"
                 THEN IF AvailableRead(p.rb) > 0
                      THEN DecodeLoop(p.d, p.rb, p.f, s, samplesToRead1, samplesRead1,
                                      audio1, calls + 1, audioLen)
                      ELSE Ret(p.d, p.rb, p.f, samplesRead1, endOfStreamErr(samplesRead1),
                               audio1, calls + 1, "ok")
                 ELSE Ret(p.d, p.rb, p.f, samplesRead1,
                          "decode samples error: " \o p.f.state, audio1, calls + 1, "ok")
            ELSE IF p.d.lastError # "nil"
            THEN Ret(clearError(p.d), p.rb, p.f, samplesRead1,
                     p.d.lastError, audio1, calls + 1, "ok")
            ELSE IF p.rb = rb1 /\ p.f = f
            THEN Ret(p.d, p.rb, p.f, samplesRead1, "hang", audio1, calls + 1, "hang")
            ELSE DecodeLoop(p.d, p.rb, p.f, s, samplesToRead1, samplesRead1,
                            audio1, calls + 1, audioLen)

\* DecodeSamples with the overflow guard of flac.go:264 off by one
DecodeSamplesRet_GuardOffByOne(d, rb, f, s, samples, audioLen) ==
    IF samples <= 0
    THEN Ret(d, rb, f, 0, "samples must be positive", << >>, 0, "ok")
    ELSE IF d.channels <= 0 \/ d.outputBytesPerSample <= 0
    THEN Ret(d, rb, f, 0, "decoder not initialized", << >>, 0, "ok")
    ELSE IF samples >= MaxInt \div (d.channels * d.outputBytesPerSample)
    THEN Ret(d, rb, f, 0, "samples value too large", << >>, 0, "ok")
    ELSE IF audioLen < samples * d.channels * d.outputBytesPerSample
    THEN Ret(d, rb, f, 0, "audio buffer too small", << >>, 0, "ok")
    ELSE DecodeLoop([d EXCEPT !.lastError = "nil"], rb, f, s, samples, 0, << >>, 0, audioLen)

\* DecodeSamples with the latch reset of flac.go:274 done on entry
DecodeSamplesRet_ResetFirst(d, rb, f, s, samples, audioLen) ==
    LET d0 == [d EXCEPT !.lastError = "nil"]
    IN  IF samples <= 0
        THEN Ret(d0, rb, f, 0, "samples must be positive", << >>, 0, "ok")
        ELSE IF d.channels <= 0 \/ d.outputBytesPerSample <= 0
        THEN Ret(d0, rb, f, 0, "decoder not initialized", << >>, 0, "ok")
        ELSE IF samples > MaxInt \div (d.channels * d.outputBytesPerSample)
        THEN Ret(d0, rb, f, 0, "samples value too large", << >>, 0, "ok")
        ELSE IF audioLen < samples * d.channels * d.outputBytesPerSample
        THEN Ret(d0, rb, f, 0, "audio buffer too small", << >>, 0, "ok")
        ELSE DecodeLoop(d0, rb, f, s, samples, 0, << >>, 0, audioLen)

\* The whole method: the validation of flac.go:254-271, then the loop.
DecodeSamplesRet(d, rb, f, s, samples, audioLen) ==
    IF samples <= 0
    THEN Ret(d, rb, f, 0, "samples must be positive", << >>, 0, "ok")
    ELSE IF d.channels <= 0 \/ d.outputBytesPerSample <= 0
    THEN Ret(d, rb, f, 0, "decoder not initialized", << >>, 0, "ok")
    ELSE IF samples > MaxInt \div (d.channels * d.outputBytesPerSample)
    THEN Ret(d, rb, f, 0, "samples value too large", << >>, 0, "ok")
    ELSE IF audioLen < samples * d.channels * d.outputBytesPerSample
    THEN Ret(d, rb, f, 0, "audio buffer too small", << >>, 0, "ok")
    ELSE DecodeLoop([d EXCEPT !.lastError = "nil"], rb, f, s, samples, 0, << >>, 0, audioLen)

\* bytesRequired (flac.go:268)
bytesRequired(d, samples) == samples * d.channels * d.outputBytesPerSample

\* the destination lengths tried for a count: one byte short, exact, roomy
AudioLens(d, samples) ==
    IF samples <= 0 \/ samples > MaxReq \/ bytesRequired(d, samples) <= 0 THEN {0}
    ELSE {bytesRequired(d, samples) - 1, bytesRequired(d, samples),
          bytesRequired(d, samples) + RingCap}

DecodeSamples(samples, audioLen) ==
    /\ status = "ok"
    /\ \E r \in {DecodeSamplesRet(dec, ringBuffer, flac, stream, samples, audioLen)} :
           /\ dec' = r.d
           /\ ringBuffer' = r.rb
           /\ flac' = r.f
           /\ lastCall' = Call("decode", r.err)
           /\ status' = r.end
    /\ UNCHANGED << stream, hist >>
    /\ UNCHANGED sideVars

(***************************************************************************)
(* Seek (flac.go:369-397).                                                 *)
(***************************************************************************)
SeekStart == 0
SeekCurrent == 1
SeekEnd == 2

\* seekSample with io.SeekEnd resolved from the current position
seekSample_EndFromCurrent(d, offset, whence) ==
    IF whence = SeekCurrent THEN d.currentSample + offset
    ELSE IF whence = SeekEnd THEN d.currentSample + offset
    ELSE offset

\* seekSample (flac.go:370-375)
seekSample(d, offset, whence) ==
    IF whence = SeekCurrent THEN d.currentSample + offset
    ELSE IF whence = SeekEnd THEN d.totalSamples + offset
    ELSE offset

\* TotalSamples (flac.go:229-231)
TotalSamples(d) == d.totalSamples

\* GetFormat (flac.go:239-241)
GetFormat(d) == << d.rate, d.channels, d.bitsPerSample >>

\* TellCurrentSample (flac.go:234-236)
TellCurrentSample(d) == d.currentSample

\* the validation of flac.go:378-383: "nil" when the target may be sought
seekValidation(d, target) ==
    IF target < 0 THEN "cannot seek before start of stream"
    ELSE IF d.totalSamples > 0 /\ target >= d.totalSamples
    THEN "cannot seek beyond end of stream"
    ELSE "nil"

\* Seek without the assignment of flac.go:394
SeekRet_NoCommit(d, rb, f, s, offset, whence, ev) ==
    LET target == seekSample(d, offset, whence)
    IN  IF seekValidation(d, target) # "nil"
        THEN Ret(d, rb, f, d.currentSample, seekValidation(d, target), << >>, 0, "ok")
        ELSE IF f.state = "deleted"
        THEN Ret(d, RingReset(rb), f, d.currentSample, "segv", << >>, 1, "segv")
        ELSE LET k == SeekAbsolute(d, RingReset(rb), f, s, target, ev)
             IN  IF k.res = 0
                 THEN Ret(k.d, k.rb, k.f, k.d.currentSample,
                          "seek failed, decoder state: " \o k.f.state, << >>, 1, "ok")
                 ELSE Ret(k.d, k.rb, k.f, k.d.currentSample, "nil", << >>, 1, "ok")

\* Seek with the assignment of flac.go:394 moved before the backend call
SeekRet_CommitEarly(d, rb, f, s, offset, whence, ev) ==
    LET target == seekSample(d, offset, whence)
    IN  IF seekValidation(d, target) # "nil"
        THEN Ret(d, rb, f, d.currentSample, seekValidation(d, target), << >>, 0, "ok")
        ELSE IF f.state = "deleted"
        THEN Ret(d, RingReset(rb), f, d.currentSample, "segv", << >>, 1, "segv")
        ELSE LET k == SeekAbsolute([d EXCEPT !.currentSample = target],
                                   RingReset(rb), f, s, target, ev)
             IN  IF k.res = 0
                 THEN Ret(k.d, k.rb, k.f, k.d.currentSample,
                          "seek failed, decoder state: " \o k.f.state, << >>, 1, "ok")
                 ELSE Ret(k.d, k.rb, k.f, target, "nil", << >>, 1, "ok")

\* Seek without the ring buffer reset of flac.go:386
SeekRet_NoReset(d, rb, f, s, offset, whence, ev) ==
    LET target == seekSample(d, offset, whence)
    IN  IF seekValidation(d, target) # "nil"
        THEN Ret(d, rb, f, d.currentSample, seekValidation(d, target), << >>, 0, "ok")
        ELSE IF f.state = "deleted"
        THEN Ret(d, rb, f, d.currentSample, "segv", << >>, 1, "segv")
        ELSE LET k == SeekAbsolute(d, rb, f, s, target, ev)
             IN  IF k.res = 0
                 THEN Ret(k.d, k.rb, k.f, k.d.currentSample,
                          "seek failed, decoder state: " \o k.f.state, << >>, 1, "ok")
                 ELSE Ret([k.d EXCEPT !.currentSample = target], k.rb, k.f,
                          target, "nil", << >>, 1, "ok")

\* Seek (flac.go:369-397): the new struct, ring and backend, the position and
\* error returned, and the number of backend calls made; after Delete the
\* backend's seek (flac.go:388) is handed the nil d.decoder
SeekRet(d, rb, f, s, offset, whence, ev) ==
    LET target == seekSample(d, offset, whence)
    IN  IF seekValidation(d, target) # "nil"
        THEN Ret(d, rb, f, d.currentSample, seekValidation(d, target), << >>, 0, "ok")
        ELSE IF f.state = "deleted"
        THEN Ret(d, RingReset(rb), f, d.currentSample, "segv", << >>, 1, "segv")
        ELSE LET k == SeekAbsolute(d, RingReset(rb), f, s, target, ev)
             IN  IF k.res = 0
                 THEN Ret(k.d, k.rb, k.f, k.d.currentSample,
                          "seek failed, decoder state: " \o k.f.state, << >>, 1, "ok")
                 ELSE Ret([k.d EXCEPT !.currentSample = target], k.rb, k.f,
                          target, "nil", << >>, 1, "ok")

\* what the input lets the backend's seek do
SeekEvents == {"ok", "ok_errcb", "fail"}

\* the same for one call of Seek: the backend is called only with a target
\* that passes the validation
BackendSeekEvents(d, offset, whence) ==
    IF seekValidation(d, seekSample(d, offset, whence)) = "nil" THEN SeekEvents ELSE {"ok"}

Seek(offset, whence, ev) ==
    /\ status = "ok"
    /\ ev \in BackendSeekEvents(dec, offset, whence)
    /\ \E r \in {SeekRet(dec, ringBuffer, flac, stream, offset, whence, ev)} :
           /\ dec' = r.d
           /\ ringBuffer' = r.rb
           /\ flac' = r.f
           /\ lastCall' = Call("seek", r.err)
           /\ hist' = IF r.calls = 0 \/ hist = "deleted" THEN hist
                      ELSE IF r.err = "nil" THEN "sought" ELSE "seek_failed"
           /\ status' = r.end
    /\ UNCHANGED stream
    /\ UNCHANGED sideVars

(***************************************************************************)
(* Open (flac.go:167-207) and Close (flac.go:210-226).                     *)
(***************************************************************************)
\* the reset of flac.go:180-186
OpenReset(d) ==
    [d EXCEPT !.rate = 0, !.channels = 0, !.bitsPerSample = 0,
              !.outputBytesPerSample = d.maxOutputSampleBitDepth \div 8,
              !.currentSample = 0, !.totalSamples = 0, !.lastError = "nil"]

\* the reset of Close leaving the position alone
CloseReset_KeepPosition(d) ==
    [d EXCEPT !.rate = 0, !.channels = 0, !.bitsPerSample = 0,
              !.outputBytesPerSample = 0,
              !.totalSamples = 0, !.lastError = "nil"]

\* the reset of flac.go:216-222
CloseReset(d) ==
    [d EXCEPT !.rate = 0, !.channels = 0, !.bitsPerSample = 0,
              !.outputBytesPerSample = 0,
              !.currentSample = 0, !.totalSamples = 0, !.lastError = "nil"]

\* getStreamDecoderInitStatusString (flac.go:539-545) indexes a slice of
\* this length with the init status
InitStatusStrings == 5

\* FLAC__stream_decoder_init_file: the status for a decoder in state st;
\* io = "open_error" when the file cannot be opened.
InitStatus(st, io) ==
    IF st # "uninit" THEN 5          \* ALREADY_INITIALIZED
    ELSE IF io = "open_error" THEN 4 \* ERROR_OPENING_FILE
    ELSE 0                           \* OK

\* FLAC__stream_decoder_process_until_end_of_metadata on stream s; meta is
\* what the metadata blocks hold: "ok", "ok_errcb" (junk before the stream
\* marker: an error callback, then success), "fail_before" / "fail_after"
\* (the input ends before / after the STREAMINFO block).
ProcessMetadata(d, s, meta) ==
    CASE meta = "ok" ->
            [d |-> decoderMetadataCallback(d, s), state |-> "sync", res |-> 1]
      [] meta = "ok_errcb" ->
            [d |-> decoderMetadataCallback(decoderErrorCallback(d, 0), s),
             state |-> "sync", res |-> 1]
      [] meta = "fail_after" ->
            [d |-> decoderMetadataCallback(d, s), state |-> "eos", res |-> 0]
      [] OTHER ->
            [d |-> d, state |-> "eos", res |-> 0]

Open(io, meta) ==
    /\ status = "ok"
    /\ UNCHANGED sideVars
    /\ LET d0 == OpenReset(dec)
           st == InitStatus(flac.state, io)
       IN  IF flac.state = "deleted"
           THEN /\ lastCall' = Call("open", "decoder not initialized")
                /\ UNCHANGED << dec, ringBuffer, flac, stream, hist, status >>
           ELSE IF st # 0
           THEN /\ dec' = d0
                /\ ringBuffer' = RingReset(ringBuffer)
                /\ UNCHANGED << flac, stream >>
                /\ hist' = IF flac.state = "uninit" THEN "closed" ELSE "open_failed"
                /\ IF st >= InitStatusStrings
                   THEN /\ status' = "panic"
                        /\ lastCall' = Call("open", "panic")
                   ELSE /\ status' = "ok"
                        /\ lastCall' = Call("open", "init flac error")
           ELSE LET m == ProcessMetadata(d0, stream, meta)
                IN  /\ dec' = m.d
                    /\ ringBuffer' = RingReset(ringBuffer)
                    /\ flac' = [state |-> m.state, next |-> 0]
                    /\ UNCHANGED stream
                    /\ status' = "ok"
                    /\ hist' = IF m.res = 0 THEN "open_failed" ELSE "opened"
                    /\ lastCall' = Call("open", IF m.res = 0 THEN "decode metadata error"
                                                ELSE "nil")

\* Close (flac.go:210-226): the backend's finish unless d.decoder is nil
Close ==
    /\ status = "ok"
    /\ dec' = CloseReset(dec)
    /\ ringBuffer' = RingReset(ringBuffer)
    /\ flac' = IF flac.state = "deleted" THEN flac ELSE [state |-> "uninit", next |-> 0]
    /\ lastCall' = Call("close", "nil")
    /\ hist' = IF flac.state = "deleted" THEN hist ELSE "closed"
    /\ UNCHANGED << stream, status >>
    /\ UNCHANGED sideVars

\* Delete (flac.go:149-156): the backend is deleted and d.decoder set to nil
\* unless it is nil already; the callback handle is deleted in either case,
\* and cgo.Handle.Delete panics on a handle that was deleted before.  The
\* struct's fields and the ring buffer are left as they are.
Delete ==
    /\ status = "ok"
    /\ IF flac.state = "deleted"
       THEN /\ status' = "panic"
            /\ lastCall' = Call("delete", "panic")
            /\ UNCHANGED << flac, hist >>
       ELSE /\ status' = "ok"
            /\ lastCall' = Call("delete", "nil")
            /\ flac' = [state |-> "deleted", next |-> 0]
            /\ hist' = "deleted"
    /\ UNCHANGED << dec, ringBuffer, stream >>
    /\ UNCHANGED sideVars

(***************************************************************************)
(* The specification.                                                      *)
(***************************************************************************)
\* the (whence, offset) pairs tried: every absolute target from -1 to
\* MaxSamples, one step back, none and one forward from the current position,
\* the last sample and one past it from the end
SeekArgs ==
    ({SeekStart} \X ((0 - 1)..MaxSamples))
    \cup ({SeekCurrent} \X {0 - 1, 0, 1})
    \cup ({SeekEnd} \X {0 - 1, 0})

Next ==
    \/ Open("open_error", "ok")
    \/ \E meta \in {"ok", "ok_errcb", "fail_before", "fail_after"} : Open("ok", meta)
    \/ Close
    \/ Delete
    \/ \E samples \in ((0 - 1)..MaxReq) \cup {MaxInt} :
          \E audioLen \in AudioLens(dec, samples) : DecodeSamples(samples, audioLen)
    \/ \E a \in SeekArgs, ev \in SeekEvents : Seek(a[2], a[1], ev)

Spec == Init /\ [][Next]_vars

(***************************************************************************)
(* Seek: validation, commit and failure.                                   *)
(***************************************************************************)
\* C6: Seek resolves the target as offset (SeekStart), currentSample+offset
\* (SeekCurrent) or totalSamples+offset (SeekEnd): a Seek that succeeds
\* returns that target.  When the target is negative, or totalSamples > 0
\* and the target is at or past totalSamples, Seek returns an error with the
\* current position, makes no backend call and leaves the struct
\* (currentSample included), the ring buffer and the backend as they were.
C6_SeekOutOfRange ==
    status = "ok" =>
        \A a \in SeekArgs, ev \in SeekEvents :
            LET whence == a[1]
                offset == a[2]
                target == CASE whence = SeekStart -> offset
                            [] whence = SeekCurrent -> dec.currentSample + offset
                            [] whence = SeekEnd -> dec.totalSamples + offset
                r == SeekRet(dec, ringBuffer, flac, stream, offset, whence, ev)
            IN  /\ r.err = "nil" => r.n = target
                /\ (target < 0 \/ (dec.totalSamples > 0 /\ target >= dec.totalSamples)) =>
                      /\ r.err # "nil"
                      /\ r.n = dec.currentSample
                      /\ r.calls = 0
                      /\ r.d = dec
                      /\ r.rb = ringBuffer
                      /\ r.f = flac

\* a Seek past the end was refused with samples buffered and a position > 0
C6_Witness ==
    /\ lastCall = Call("seek", "cannot seek beyond end of stream")
    /\ AvailableRead(ringBuffer) > 0
    /\ dec.currentSample > 0

\* C7: for every resolved target with 0 <= target <= totalSamples-1 for which
\* the backend's absolute seek succeeds, Seek returns (target, nil) and
\* TellCurrentSample() is target afterwards.
C7_SeekCommits ==
    status = "ok" =>
        \A a \in SeekArgs, ev \in SeekEvents :
            LET target == seekSample(dec, a[2], a[1])
                k == SeekAbsolute(dec, RingReset(ringBuffer), flac, stream, target, ev)
                r == SeekRet(dec, ringBuffer, flac, stream, a[2], a[1], ev)
            IN  (0 <= target /\ target <= dec.totalSamples - 1 /\ k.res # 0) =>
                    /\ r.n = target
                    /\ r.err = "nil"
                    /\ TellCurrentSample(r.d) = target

\* a Seek to the last sample of a stream of several samples succeeded
C7_Witness ==
    /\ lastCall = Call("seek", "nil")
    /\ hist = "sought"
    /\ dec.totalSamples > 1
    /\ TellCurrentSample(dec) = dec.totalSamples - 1
    /\ AvailableRead(ringBuffer) > 0

\* C8: when the backend's absolute seek fails, Seek returns an error that
\* carries the backend's state and the old position, and currentSample is
\* what it was before the call.  (The backend is there to fail: after
\* Delete there is none to call.)
C8_SeekFailureKeepsPosition ==
    (status = "ok" /\ flac.state # "deleted") =>
        \A a \in SeekArgs, ev \in SeekEvents :
            LET target == seekSample(dec, a[2], a[1])
                k == SeekAbsolute(dec, RingReset(ringBuffer), flac, stream, target, ev)
                r == SeekRet(dec, ringBuffer, flac, stream, a[2], a[1], ev)
            IN  (seekValidation(dec, target) = "nil" /\ k.res = 0) =>
                    /\ r.err = "seek failed, decoder state: " \o k.f.state
                    /\ r.n = dec.currentSample
                    /\ r.d.currentSample = dec.currentSample

\* a Seek whose backend call failed returned, the position being > 0
C8_Witness ==
    /\ lastCall = Call("seek", "seek failed, decoder state: seek_error")
    /\ hist = "seek_failed"
    /\ dec.currentSample > 0

(***************************************************************************)
(* DecodeSamples: argument validation.                                     *)
(***************************************************************************)
\* C10: DecodeSamples(samples, audio) with samples <= 0, or with len(audio)
\* below samples*channels*outputBytesPerSample, returns (0, error) without
\* a backend call and leaves the struct (currentSample and the error latch
\* included), the ring buffer and the backend as they were.
C10_InvalidArguments ==
    status = "ok" =>
        \A samples \in (0 - 1)..MaxReq :
            \A audioLen \in AudioLens(dec, samples) \cup {0} :
                LET r == DecodeSamplesRet(dec, ringBuffer, flac, stream, samples, audioLen)
                IN  (samples <= 0 \/ audioLen < bytesRequired(dec, samples)) =>
                        /\ r.n = 0
                        /\ r.err \notin {"nil", "EOF"}
                        /\ r.end = "ok"
                        /\ r.calls = 0
                        /\ r.d = dec
                        /\ r.rb = ringBuffer
                        /\ r.f = flac

\* a call with too short a destination was refused while the latch held an
\* error, the ring held bytes and the position was > 0
C10_Witness ==
    /\ lastCall = Call("decode", "audio buffer too small")
    /\ dec.lastError # "nil"
    /\ AvailableRead(ringBuffer) > 0
    /\ dec.currentSample > 0

(***************************************************************************)
(* Seek: no stale bytes.                                                   *)
(***************************************************************************)
\* the output depth holds the stream's samples: same depth, or 24 to 16
DepthsAgree(d) ==
    \/ d.bitsPerSample = d.maxOutputSampleBitDepth
    \/ d.bitsPerSample = 24 /\ d.maxOutputSampleBitDepth = 16

\* the bytes samples i0 .. i0+n-1 of stream s are to be delivered as by d
\* (a 24-bit sample at output depth 16 keeps its two high-order bytes)
ExpectedBytes(s, d, i0, n) ==
    Concat([k \in 1..(n * s.channels) |->
               LEBytes(IF s.bps = d.maxOutputSampleBitDepth
                       THEN StreamSamples(s, i0, n)[k]
                       ELSE shr(StreamSamples(s, i0, n)[k], 8),
                       d.outputBytesPerSample)])

\* C9: after a successful Seek, and through the DecodeSamples calls that
\* follow it, the ring buffer holds only bytes of the samples from
\* currentSample on, in stream order (none that the ring held before the
\* Seek, and the bytes the callbacks wrote during the Seek are there), and
\* every DecodeSamples call delivers the samples from currentSample on: the
\* first one delivered after the Seek is the one at the seek target.
C9_NoStaleBytesAfterSeek ==
    (status = "ok" /\ hist = "sought" /\ DepthsAgree(dec)) =>
        /\ dec.currentSample <= stream.K
        /\ IsPrefix(ringBuffer,
                    ExpectedBytes(stream, dec, dec.currentSample,
                                  stream.K - dec.currentSample))
        /\ lastCall = Call("seek", "nil") =>
              ringBuffer = ExpectedBytes(stream, dec, dec.currentSample,
                                         flac.next - dec.currentSample)
        /\ \A samples \in 1..MaxReq :
              \A audioLen \in AudioLens(dec, samples) :
                 LET r == DecodeSamplesRet(dec, ringBuffer, flac, stream, samples, audioLen)
                 IN  r.end = "ok" =>
                        r.audio = ExpectedBytes(stream, dec, dec.currentSample, r.n)

\* samples were delivered by a DecodeSamples call that followed a successful
\* Seek to a target other than the start
C9_Witness ==
    /\ hist = "sought"
    /\ DepthsAgree(dec)
    /\ lastCall = Call("decode", "nil")
    /\ dec.currentSample > 1
    /\ status = "ok"

(***************************************************************************)
(* DecodeSamples: delivery, end of stream, counts.                         *)
(***************************************************************************)
\* the destinations large enough for a count
LargeEnough(d, samples) == {bytesRequired(d, samples), bytesRequired(d, samples) + RingCap}

\* a stream without fault was opened at its own depth and only DecodeSamples
\* (and refused Seeks) were called since; no error is latched
CleanRun ==
    /\ status = "ok"
    /\ hist = "opened"
    /\ stream.fault = NoFault
    /\ dec.bitsPerSample = dec.maxOutputSampleBitDepth
    /\ dec.lastError = "nil"

\* C1: on a successfully opened stream of K samples (output depth = source
\* depth, no backend error) every DecodeSamples call delivers the samples
\* that follow those delivered so far, in stream order; it fails with no
\* error; it delivers at least one sample unless it returns (0, io.EOF),
\* and it returns (0, io.EOF) only once all K samples were delivered.
C1_ExactlyOnceInOrder ==
    CleanRun =>
        \A samples \in 1..MaxReq :
            \A audioLen \in LargeEnough(dec, samples) :
                LET r == DecodeSamplesRet(dec, ringBuffer, flac, stream, samples, audioLen)
                IN  /\ r.end = "ok"
                    /\ r.err \in {"nil", "EOF"}
                    /\ r.audio = StreamBytes(stream, dec.currentSample, r.n,
                                             dec.outputBytesPerSample)
                    /\ r.d.currentSample = dec.currentSample + r.n
                    /\ r.err = "nil" => r.n >= 1
                    /\ r.err = "EOF" => r.n = 0 /\ dec.currentSample = stream.K

\* C3: round trip.  A stream encoded at depth D from known samples, opened
\* by a decoder created for depth D, reports the encoded rate, channels,
\* depth and sample count, and every DecodeSamples call yields bytes that
\* PCMToInt32 turns back into the samples that follow those delivered so
\* far; the calls go on delivering until all samples were delivered.
C3_RoundTrip ==
    (CleanRun /\ stream.total = stream.K) =>
        /\ GetFormat(dec) = << stream.rate, stream.channels, stream.bps >>
        /\ TotalSamples(dec) = stream.K
        /\ \A samples \in 1..MaxReq :
              LET r == DecodeSamplesRet(dec, ringBuffer, flac, stream, samples,
                                        bytesRequired(dec, samples))
              IN  /\ r.end = "ok"
                  /\ PCMToInt32(r.audio, stream.bps, r.n * stream.channels)
                        = StreamSamples(stream, dec.currentSample, r.n)
                  /\ IF dec.currentSample < stream.K
                     THEN r.err = "nil" /\ r.n >= 1
                     ELSE r.err = "EOF" /\ r.n = 0

\* C4: every DecodeSamples(samples, audio) call that is not refused returns
\* a count n with 0 <= n <= samples and copies at most
\* samples*channels*outputBytesPerSample bytes into audio (it never slices
\* audio beyond its length), in every reachable state.
C4_CountWithinRequest ==
    status = "ok" =>
        \A samples \in 1..MaxReq :
            \A audioLen \in LargeEnough(dec, samples) :
                LET r == DecodeSamplesRet(dec, ringBuffer, flac, stream, samples, audioLen)
                IN  /\ r.end # "panic"
                    /\ r.end = "ok" =>
                          /\ 0 <= r.n
                          /\ r.n <= samples
                          /\ Len(r.audio) <= bytesRequired(dec, samples)

\* C5: with no backend error, every DecodeSamples call with count > 0 and a
\* large-enough destination returns, with exactly count samples or, the
\* backend being at end of stream, the samples that remained.
C5_ReturnsCountOrRest ==
    (CleanRun /\ flac.state \in {"sync", "eos"}) =>
        \A samples \in 1..MaxReq :
            \A audioLen \in LargeEnough(dec, samples) :
                LET r == DecodeSamplesRet(dec, ringBuffer, flac, stream, samples, audioLen)
                IN  /\ r.end = "ok"
                    /\ \/ r.n = samples /\ r.err = "nil"
                       \/ /\ r.f.state = "eos"
                          /\ r.n = stream.K - dec.currentSample
                          /\ r.err = (IF r.n > 0 THEN "nil" ELSE "EOF")

(***************************************************************************)
(* DecodeSamples: the call during which the backend reaches end of stream. *)
(***************************************************************************)
\* the backend makes an error callback in a call that decodes from the
\* backend's position to the end of the stream
ErrorCallbackAhead ==
    stream.fault.kind \in {"errcb", "errcb2"} /\ stream.fault.at >= flac.next

\* C2 as stated: when the backend reaches end of stream during a
\* DecodeSamples call, a call that delivered at least one sample returns
\* that count with a nil error and the next call returns (0, io.EOF); a
\* call that delivered no sample returns (0, io.EOF).
C2_EndOfStreamAsStated ==
    status = "ok" =>
        \A samples \in 1..MaxReq :
            \A audioLen \in LargeEnough(dec, samples) :
                LET r == DecodeSamplesRet(dec, ringBuffer, flac, stream, samples, audioLen)
                IN  (flac.state = "sync" /\ r.f.state = "eos") =>
                        /\ r.end = "ok"
                        /\ r.n > 0 =>
                              /\ r.err = "nil"
                              /\ \A samples2 \in 1..MaxReq :
                                    \A audioLen2 \in LargeEnough(r.d, samples2) :
                                       LET r2 == DecodeSamplesRet(r.d, r.rb, r.f, stream,
                                                                  samples2, audioLen2)
                                       IN  r2.end = "ok" /\ r2.n = 0 /\ r2.err = "EOF"
                        /\ r.n = 0 => r.err = "EOF"

\* C2 (amended): when the backend reaches end of stream during a
\* DecodeSamples call in which it makes no error callback, a call that
\* delivered at least one sample returns that count with a nil error and the
\* next call returns (0, io.EOF); a call that delivered no sample returns
\* (0, io.EOF).  In every such call the ring buffer is left empty.
C2_EndOfStream ==
    status = "ok" =>
        \A samples \in 1..MaxReq :
            \A audioLen \in LargeEnough(dec, samples) :
                LET r == DecodeSamplesRet(dec, ringBuffer, flac, stream, samples, audioLen)
                IN  (flac.state = "sync" /\ r.f.state = "eos" /\ ~ErrorCallbackAhead) =>
                        /\ r.end = "ok"
                        /\ r.calls >= 1
                        /\ r.n > 0 =>
                              /\ r.err = "nil"
                              /\ \A samples2 \in 1..MaxReq :
                                    \A audioLen2 \in LargeEnough(r.d, samples2) :
                                       LET r2 == DecodeSamplesRet(r.d, r.rb, r.f, stream,
                                                                  samples2, audioLen2)
                                       IN  r2.end = "ok" /\ r2.n = 0 /\ r2.err = "EOF"
                        /\ r.n = 0 => r.err = "EOF"

\* a call that asked for more than the stream held delivered the last
\* samples of a stream of several frames with a nil error, the backend
\* having reached end of stream, and nothing is left in the ring buffer
C2_Witness ==
    /\ lastCall = Call("decode", "nil")
    /\ flac.state = "eos"
    /\ stream.K > stream.B
    /\ dec.currentSample = stream.K
    /\ AvailableRead(ringBuffer) = 0
    /\ status = "ok"

(***************************************************************************)
(* DecodeSamples: the overflow guard and the not-ready guard.              *)
(***************************************************************************)
\* samples * m > MaxInt, computed in 16-bit halves so that no intermediate
\* value leaves the 32-bit range
ExceedsMaxInt(samples, m) ==
    LET lo == (samples % 65536) * m
        hi == (samples \div 65536) * m + (lo \div 65536)
    IN  hi >= 32768

\* counts around the largest one whose byte size fits an int, for m bytes
\* per sample frame
BigCounts(m) ==
    {1, MaxReq, MaxInt \div 2, MaxInt, (MaxInt \div m) - 1, MaxInt \div m}
    \cup (IF MaxInt \div m < MaxInt THEN {(MaxInt \div m) + 1} ELSE {})

\* C11: DecodeSamples rejects, with the overflow error and no state change,
\* exactly the counts for which samples*channels*outputBytesPerSample
\* exceeds the maximum int; for every count that passes the guard the byte
\* requirement is the exact product (it fits an int).
C11_OverflowGuardExact ==
    (status = "ok" /\ dec.channels > 0 /\ dec.outputBytesPerSample > 0) =>
        \A samples \in BigCounts(dec.channels * dec.outputBytesPerSample) :
            LET m == dec.channels * dec.outputBytesPerSample
                r == DecodeSamplesRet(dec, ringBuffer, flac, stream, samples, 0)
            IN  /\ ExceedsMaxInt(samples, m) <=> r.err = "samples value too large"
                /\ ExceedsMaxInt(samples, m) =>
                      /\ r.n = 0
                      /\ r.calls = 0
                      /\ r.d = dec
                      /\ r.rb = ringBuffer
                      /\ r.f = flac
                /\ ~ExceedsMaxInt(samples, m) =>
                      /\ r.err = "audio buffer too small"
                      /\ bytesRequired(dec, samples) >= samples
                      /\ bytesRequired(dec, samples) <= MaxInt
                      /\ bytesRequired(dec, samples) \div m = samples

\* a call with the largest count was refused by the overflow guard on an
\* open decoder with samples buffered and a position > 0
C11_Witness ==
    /\ lastCall = Call("decode", "samples value too large")
    /\ dec.channels > 0
    /\ AvailableRead(ringBuffer) > 0
    /\ dec.currentSample > 0

\* C12: whenever channels = 0, DecodeSamples returns the not-initialized
\* error (the division of flac.go:264 is not reached), makes no backend
\* call and changes nothing; a write callback that arrives with
\* channels = 0 leaves an error latched, aborts and writes nothing.
C12_NotReady ==
    (status = "ok" /\ dec.channels = 0) =>
        /\ \A samples \in (1..MaxReq) \cup {MaxInt} :
              LET r == DecodeSamplesRet(dec, ringBuffer, flac, stream, samples, RingCap)
              IN  /\ r.err = "decoder not initialized"
                  /\ r.n = 0
                  /\ r.end = "ok"
                  /\ r.calls = 0
                  /\ r.d = dec
                  /\ r.rb = ringBuffer
                  /\ r.f = flac
        /\ \A from \in 0..MaxSamples, count \in 1..MaxBlock :
              LET w == decoderWriteCallback(dec, ringBuffer, stream, from, count)
              IN  /\ w.st = "abort"
                  /\ w.rb = ringBuffer
                  /\ w.d.lastError # "nil"
                  /\ dec.lastError = "nil" => w.d.lastError = "channels not initialized"

\* DecodeSamples was refused on a decoder whose Open failed before the
\* format arrived, after a write callback had come with channels = 0
C12_Witness ==
    /\ lastCall = Call("decode", "decoder not initialized")
    /\ hist = "seek_failed"
    /\ dec.channels = 0
    /\ dec.lastError = "channels not initialized"
    /\ AvailableRead(ringBuffer) = 0

(***************************************************************************)
(* The error latch.                                                        *)
(***************************************************************************)
\* the call starts by asking the backend for a frame
CallsBackendFirst(samples) ==
    /\ dec.channels > 0
    /\ dec.outputBytesPerSample > 0
    /\ flac.state = "sync"
    /\ AvailableRead(ringBuffer) \div (dec.channels * dec.outputBytesPerSample) < samples

\* C13: the latch is never overwritten while unread.  An error callback or
\* a failing write callback that arrives while an error is latched leaves
\* that error latched, and a DecodeSamples call during which the backend
\* reports lost sync and then bad header returns the first of them.
C13_FirstErrorWins ==
    status = "ok" =>
        /\ dec.lastError # "nil" =>
              /\ \A st \in 0..7 : decoderErrorCallback(dec, st).lastError = dec.lastError
              /\ \A from \in 0..MaxSamples, count \in 1..MaxBlock :
                    decoderWriteCallback(dec, ringBuffer, stream, from, count).d.lastError
                        = dec.lastError
        /\ \A samples \in 1..MaxReq :
              \A audioLen \in LargeEnough(dec, samples) :
                 (/\ CallsBackendFirst(samples)
                  /\ stream.fault.kind = "errcb2"
                  /\ stream.fault.at = flac.next) =>
                     DecodeSamplesRet(dec, ringBuffer, flac, stream, samples, audioLen).err
                         = "lost sync"

\* C14: a DecodeSamples call during which a callback reports an error
\* returns that error with the count of the samples it copied, which is
\* what currentSample advanced by, and every call that passed validation
\* returns with the latch empty.
C14_CallbackErrorReturned ==
    (status = "ok" /\ dec.channels > 0 /\ dec.outputBytesPerSample > 0) =>
        \A samples \in 1..MaxReq :
            \A audioLen \in LargeEnough(dec, samples) :
                LET r == DecodeSamplesRet(dec, ringBuffer, flac, stream, samples, audioLen)
                    p == ProcessSingle([dec EXCEPT !.lastError = "nil"], ringBuffer,
                                       flac, stream)
                IN  r.end = "ok" =>
                       /\ r.d.lastError = "nil"
                       /\ r.err \notin {"nil", "EOF"} =>
                             /\ Len(r.audio) = r.n * dec.channels * dec.outputBytesPerSample
                             /\ r.d.currentSample = dec.currentSample + r.n
                       /\ (CallsBackendFirst(samples) /\ p.d.lastError # "nil") =>
                             /\ r.err = p.d.lastError
                             /\ r.n = 0
                             /\ r.calls = 1
                             /\ r.rb = p.rb

\* a call returned the error of an error callback that came with a frame:
\* the frame is buffered, the latch is empty
C14_Witness ==
    /\ lastCall = Call("decode", "lost sync")
    /\ dec.lastError = "nil"
    /\ AvailableRead(ringBuffer) > 0
    /\ flac.state = "sync"
    /\ status = "ok"

(***************************************************************************)
(* The sample packer on its own: a sample is packed as the write callback  *)
(* packs it, then read back by PCMToInt32.                                 *)
(***************************************************************************)
\* the decoder, not in use
DecoderIdle ==
    /\ dec = NewFlacFrameDecoder(16)
    /\ ringBuffer = << >>
    /\ flac = [state |-> "uninit", next |-> 0]
    /\ stream = [K |-> 0, B |-> 1, channels |-> 1, bps |-> 16, rate |-> 44100,
                 total |-> 0, fault |-> NoFault]
    /\ lastCall = Call("new", "nil")
    /\ hist = "closed"
    /\ status = "ok"

\* the (stream bytes per sample, output depth) pairs packed: each width at
\* its own depth, and 24-bit samples at output depth 16
PackWidths == {<< 1, 8 >>, << 2, 16 >>, << 3, 24 >>, << 4, 32 >>, << 3, 16 >>}

\* the samples packed at width w: every 8-bit value; for the wider ones the
\* ends of the signed range, the values around zero, the powers of two and
\* byte patterns that tell the bytes apart
PackSamples(w) ==
    IF w = 1 THEN (0 - 128)..127
    ELSE LET top == IF w = 4 THEN MaxInt ELSE Pow2(8 * w - 1) - 1
             pat == CASE w = 2 -> 4660 [] w = 3 -> 1193046 [] OTHER -> 305419896
         IN  {0, 1, 0 - 1, 2, 0 - 2, 127, 128, 0 - 128, 0 - 129, 255, 256, 0 - 256,
              pat, 0 - pat, top, top - 1, 0 - top, (0 - top) - 1}
             \cup {Pow2(k) : k \in 0..(8 * w - 2)}
             \cup {0 - Pow2(k) : k \in 0..(8 * w - 2)}
             \cup {Pow2(k) - 1 : k \in 1..(8 * w - 2)}

InitPacker ==
    /\ DecoderIdle
    /\ \E wd \in PackWidths :
          \E x \in PackSamples(wd[1]) :
             pk = [phase |-> "in", w |-> wd[1], depth |-> wd[2], x |-> x,
                   bytes |-> << >>, back |-> 0]
    /\ ring = [phase |-> "idle"]
    /\ rbHist = [phase |-> "idle"]
    /\ enc = [phase |-> "idle"]
    /\ encRun = [phase |-> "idle"]

\* the write callback's switch for one sample (flac.go:469-518)
PackSample ==
    /\ pk.phase = "in"
    /\ pk' = [pk EXCEPT !.phase = "packed",
                        !.bytes = SampleBytes(pk.x, pk.w, pk.depth)]
    /\ UNCHANGED << decVars, ring, rbHist, enc, encRun >>

\* PCMToInt32 on the bytes, at the output depth, into a slice of one element
UnpackSample ==
    /\ pk.phase = "packed"
    /\ pk' = [pk EXCEPT !.phase = "unpacked",
                        !.back = PCMToInt32(pk.bytes, pk.depth, 1)[1]]
    /\ UNCHANGED << decVars, ring, rbHist, enc, encRun >>

NextPacker == PackSample \/ UnpackSample

SpecPacker == InitPacker /\ [][NextPacker]_vars

\* C17: for every width w in {1,2,3,4} and every x in the signed range of
\* 8*w bits, the bytes the write callback emits for x at width w are the w
\* little-endian bytes of x, and PCMToInt32 at depth 8*w turns them back
\* into x; at 24 bits FF FF FF is -1 and 00 00 80 is -8388608.
C17_PackUnpack ==
    (pk.phase \in {"packed", "unpacked"} /\ pk.depth = 8 * pk.w) =>
        /\ pk.bytes = LEBytes(pk.x, pk.w)
        /\ pk.phase = "unpacked" => pk.back = pk.x
        /\ (pk.phase = "unpacked" /\ pk.bytes = << 255, 255, 255 >>) => pk.back = 0 - 1
        /\ (pk.phase = "unpacked" /\ pk.bytes = << 0, 0, 128 >>) => pk.back = 0 - 8388608

\* the lowest 24-bit sample went through the packer and back
C17_Witness ==
    /\ pk.phase = "unpacked"
    /\ pk.w = 3
    /\ pk.depth = 24
    /\ pk.bytes = << 0, 0, 128 >>
    /\ pk.back = 0 - 8388608

\* C18: a 24-bit sample v packed for output depth 16 is emitted as the two
\* little-endian bytes of v shifted right by 8 (no rounding), and read back
\* at 16 bits is v >> 8; 0x123456 gives 0x1234, and int32toInt24LEBytes of
\* it is {0x56, 0x34, 0x12}.
C18_Narrowing ==
    (pk.phase \in {"packed", "unpacked"} /\ pk.w = 3 /\ pk.depth = 16) =>
        /\ pk.bytes = LEBytes(shr(pk.x, 8), 2)
        /\ int32toInt24LEBytes(pk.x) = LEBytes(pk.x, 3)
        /\ pk.phase = "unpacked" => pk.back = shr(pk.x, 8)
        /\ pk.x = 1193046 =>
              /\ int32toInt24LEBytes(pk.x) = << 86, 52, 18 >>
              /\ pk.bytes = << 52, 18 >>
              /\ pk.phase = "unpacked" => pk.back = 4660

\* 0x123456 was packed for output depth 16 and read back
C18_Witness ==
    /\ pk.phase = "unpacked"
    /\ pk.w = 3
    /\ pk.depth = 16
    /\ pk.x = 1193046
    /\ pk.back = 4660

(***************************************************************************)
(* The ring buffer on its own, at the level of its cursors (spec.md 3 and  *)
(* 4.1): a byte array of RingCap cells and two logical offsets that only   *)
(* grow, wrap as unsigned integers and are reduced mod RingCap to index.   *)
(***************************************************************************)
\* the unsigned cursors wrap at a multiple of the capacity
CursorMod == 2 * RingCap

\* the bytes written over the lifetime of one buffer
MaxRingBytes == 3 * RingCap

\* the resets over the lifetime of one buffer
MaxResets == 1

\* the k-th byte (from 0) handed to Write over the lifetime of the buffer
DataByte(k) == (k % 255) + 1

DataBytes(from, n) == [i \in 1..n |-> DataByte(from + i - 1)]

rbNew == [buf |-> [i \in 1..RingCap |-> 0], readCursor |-> 0, writeCursor |-> 0]

\* the unsigned difference of the cursors
rbAvailableRead(rb) == (rb.writeCursor - rb.readCursor) % CursorMod

rbAvailableWrite(rb) == RingCap - rbAvailableRead(rb)

\* the unread bytes, oldest first
rbContents(rb) ==
    [i \in 1..rbAvailableRead(rb) |-> rb.buf[((rb.readCursor + i - 1) % RingCap) + 1]]

\* a write that copies its bytes in whatever the free space
rbWrite_NoSpaceCheck(rb, bytes) ==
    [ok |-> TRUE,
     rb |-> [rb EXCEPT
               !.buf = [c \in 1..RingCap |->
                          LET hits == {i \in 1..Len(bytes) :
                                          ((rb.writeCursor + i - 1) % RingCap) + 1 = c}
                          IN  IF hits = {} THEN rb.buf[c]
                              ELSE bytes[CHOOSE i \in hits : \A j \in hits : j <= i]],
               !.writeCursor = (rb.writeCursor + Len(bytes)) % CursorMod]]

\* write(bytes): InsufficientSpace when the bytes exceed the free space,
\* nothing changed; otherwise all bytes copied in and the write cursor moved
rbWrite(rb, bytes) ==
    IF Len(bytes) > rbAvailableWrite(rb)
    THEN [ok |-> FALSE, rb |-> rb]
    ELSE [ok |-> TRUE,
          rb |-> [rb EXCEPT
                    !.buf = [c \in 1..RingCap |->
                               LET hits == {i \in 1..Len(bytes) :
                                               ((rb.writeCursor + i - 1) % RingCap) + 1 = c}
                               IN  IF hits = {} THEN rb.buf[c]
                                   ELSE bytes[CHOOSE i \in hits : TRUE]],
                    !.writeCursor = (rb.writeCursor + Len(bytes)) % CursorMod]]

\* a read that moves the read cursor by the length of the destination
rbRead_AdvanceByRequest(rb, n) ==
    LET count == Min(n, rbAvailableRead(rb))
    IN  [n    |-> count,
         data |-> SubSeq(rbContents(rb), 1, count),
         rb   |-> [rb EXCEPT !.readCursor = (rb.readCursor + n) % CursorMod]]

\* read(destination) with destination.length = n: min(n, availableRead)
\* bytes copied out, the read cursor moved by that count
rbRead(rb, n) ==
    LET count == Min(n, rbAvailableRead(rb))
    IN  [n    |-> count,
         data |-> [i \in 1..count |-> rb.buf[((rb.readCursor + i - 1) % RingCap) + 1]],
         rb   |-> [rb EXCEPT !.readCursor = (rb.readCursor + count) % CursorMod]]

\* reset(): both cursors to 0, or the read cursor to the write cursor
rbReset(rb, toZero) ==
    IF toZero THEN [rb EXCEPT !.readCursor = 0, !.writeCursor = 0]
    ELSE [rb EXCEPT !.readCursor = rb.writeCursor]

\* the decoder's buffer as created by NewFlacFrameDecoder (flac.go:130-134);
\* rbHist keeps what was written and read since the last reset
InitRing ==
    /\ DecoderIdle
    /\ ring = rbNew
    /\ rbHist = [put |-> << >>, taken |-> << >>, total |-> 0, resets |-> 0,
                 last |-> [op |-> "new", ok |-> TRUE]]
    /\ pk = [phase |-> "idle"]
    /\ enc = [phase |-> "idle"]
    /\ encRun = [phase |-> "idle"]

\* the lengths written: one sample of 1..4 bytes (flac.go:469-511), and up to
\* one more than the capacity
WriteLens == 1..(RingCap + 1)

RbWrite(n) ==
    /\ rbHist.total + n <= MaxRingBytes
    /\ LET bytes == DataBytes(rbHist.total, n)
           w     == rbWrite(ring, bytes)
       IN  /\ ring' = w.rb
           /\ rbHist' = IF w.ok
                        THEN [rbHist EXCEPT !.put = @ \o bytes, !.total = @ + n,
                                            !.last = [op |-> "write", ok |-> TRUE]]
                        ELSE [rbHist EXCEPT !.last = [op |-> "write", ok |-> FALSE]]
    /\ UNCHANGED << decVars, pk, enc, encRun >>

RbRead(n) ==
    /\ LET r == rbRead(ring, n)
       IN  /\ ring' = r.rb
           /\ rbHist' = [rbHist EXCEPT !.taken = @ \o r.data,
                                       !.last = [op |-> "read", ok |-> r.n = n]]
    /\ UNCHANGED << decVars, pk, enc, encRun >>

RbReset(toZero) ==
    /\ rbHist.resets < MaxResets
    /\ ring' = rbReset(ring, toZero)
    /\ rbHist' = [rbHist EXCEPT !.put = << >>, !.taken = << >>, !.resets = @ + 1,
                                !.last = [op |-> "reset", ok |-> TRUE]]
    /\ UNCHANGED << decVars, pk, enc, encRun >>

NextRing ==
    \/ \E n \in WriteLens : RbWrite(n)
    \/ \E n \in 0..(RingCap + 1) : RbRead(n)
    \/ \E toZero \in BOOLEAN : RbReset(toZero)

SpecRing == InitRing /\ [][NextRing]_vars

\* C15: the unread byte count (write cursor minus read cursor, unsigned) is
\* always between 0 and the capacity, availableRead + availableWrite is the
\* capacity, and a write of more bytes than availableWrite fails and leaves
\* the cursors and the stored bytes as they were.
C15_RingBounds ==
    /\ rbAvailableRead(ring) \in 0..RingCap
    /\ rbAvailableWrite(ring) \in 0..RingCap
    /\ rbAvailableRead(ring) + rbAvailableWrite(ring) = RingCap
    /\ \A n \in WriteLens :
          LET w == rbWrite(ring, DataBytes(rbHist.total, n))
          IN  /\ n > rbAvailableWrite(ring) => (~w.ok /\ w.rb = ring)
              /\ n <= rbAvailableWrite(ring) =>
                    (w.ok /\ rbAvailableRead(w.rb) = rbAvailableRead(ring) + n)

\* a write was refused on a buffer that is partly full, with its cursors
\* past the first wrap of the index
C15_Witness ==
    /\ rbHist.last = [op |-> "write", ok |-> FALSE]
    /\ rbAvailableWrite(ring) = 2
    /\ ring.writeCursor > RingCap
    /\ (ring.writeCursor % RingCap) < (ring.readCursor % RingCap)

\* C16: over any interleaving of successful writes and reads, the bytes read
\* so far followed by the bytes still buffered are the bytes written, in
\* order, so the bytes read are a prefix of the bytes written; a read into a
\* destination of length n returns min(n, availableRead) bytes, the oldest
\* unread ones, whatever the state of the buffer.
C16_RingFifo ==
    /\ rbHist.taken \o rbContents(ring) = rbHist.put
    /\ IsPrefix(rbHist.taken, rbHist.put)
    /\ \A n \in 0..(RingCap + 1) :
          LET r == rbRead(ring, n)
          IN  /\ r.n = Min(n, rbAvailableRead(ring))
              /\ r.data = SubSeq(rbContents(ring), 1, r.n)
              /\ rbContents(r.rb) = SubSeq(rbContents(ring), r.n + 1, rbAvailableRead(ring))
    \* the unread bytes as a sequence behave as the decoder's model of the
    \* buffer does
    /\ \A n \in 1..4 :
          LET bytes == DataBytes(rbHist.total, n)
          IN  /\ rbWrite(ring, bytes).ok = RingWriteOk(rbContents(ring), bytes)
              /\ rbContents(rbWrite(ring, bytes).rb) = RingWrite(rbContents(ring), bytes)
    /\ \A n \in 0..(RingCap + 1) :
          /\ rbRead(ring, n).data = RingReadBytes(rbContents(ring), n)
          /\ rbContents(rbRead(ring, n).rb) = RingAfterRead(rbContents(ring), n)
    /\ \A z \in BOOLEAN : rbContents(rbReset(ring, z)) = RingReset(rbContents(ring))

\* a short read: more was asked than buffered, across the wrap of the
\* index and after the unsigned cursors wrapped
C16_Witness ==
    /\ rbHist.last = [op |-> "read", ok |-> FALSE]
    /\ Len(rbHist.taken) > RingCap
    /\ rbAvailableRead(ring) = 0
    /\ ring.writeCursor < RingCap
    /\ rbHist.total > CursorMod

(***************************************************************************)
(* The encoder's STREAMINFO capture (encoderMetadataCallback): the block   *)
(* the backend hands over at Finish, serialized into 34 bytes.             *)
(***************************************************************************)
\* a | b on two bytes
RECURSIVE OrByte(_, _)
OrByte(a, b) ==
    IF a = 0 THEN b
    ELSE IF b = 0 THEN a
    ELSE (IF a % 2 = 1 \/ b % 2 = 1 THEN 1 ELSE 0) + 2 * OrByte(a \div 2, b \div 2)

\* byte((uint64(v) << s) >> t) for a value v of at most 31 bits; a negative
\* v converts to uint64 with its sign extended
ShiftedByte(v, s, t) ==
    IF t >= s
    THEN IF t - s >= 31 THEN (IF v < 0 THEN 255 ELSE 0) ELSE shr(v, t - s) % 256
    ELSE IF s - t >= 8 THEN 0 ELSE ((v % 256) * Pow2(s - t)) % 256

\* the packed word with the channel count one bit lower
PackedByte_ChannelsAt40(meta, t) ==
    OrByte(OrByte(ShiftedByte(meta.rate, 44, t), ShiftedByte(meta.channels - 1, 40, t)),
           OrByte(ShiftedByte(meta.bps - 1, 36, t),
                  OrByte(ShiftedByte(meta.totalHigh, 31, t),
                         ShiftedByte(meta.totalSamples, 0, t))))

\* byte(packed >> t) of
\* packed := uint64(rate)<<44 | uint64(channels-1)<<41 | uint64(bps-1)<<36 | uint64(totalSamples)
\* the int64 total is carried in two parts: totalSamples its low 31 bits,
\* totalHigh the bits from bit 31 up
PackedByte(meta, t) ==
    OrByte(OrByte(ShiftedByte(meta.rate, 44, t), ShiftedByte(meta.channels - 1, 41, t)),
           OrByte(ShiftedByte(meta.bps - 1, 36, t),
                  OrByte(ShiftedByte(meta.totalHigh, 31, t),
                         ShiftedByte(meta.totalSamples, 0, t))))

StreamInfoLen == 34

\* the callback storing the block sizes low byte first
encoderMetadataCallback_LittleEndian(e, meta) ==
    IF meta.type # "STREAMINFO" THEN e
    ELSE [e EXCEPT !.streamInfo =
            << byte(meta.minBlock), byte(shr(meta.minBlock, 8)),
               byte(meta.maxBlock), byte(shr(meta.maxBlock, 8)),
               byte(shr(meta.minFrame, 16)), byte(shr(meta.minFrame, 8)), byte(meta.minFrame),
               byte(shr(meta.maxFrame, 16)), byte(shr(meta.maxFrame, 8)), byte(meta.maxFrame) >>
            \o [i \in 1..8 |-> PackedByte(meta, 64 - 8 * i)]
            \o meta.md5]

\* encoderMetadataCallback (roundtrip_test.go:1664-1743): any block but
\* STREAMINFO is ignored; streamInfo becomes 34 bytes: bytes 0-9 the block
\* and frame sizes big-endian, bytes 10-17 the packed word big-endian, bytes
\* 18-33 the MD5 signature
encoderMetadataCallback(e, meta) ==
    IF meta.type # "STREAMINFO" THEN e
    ELSE LET made == [i \in 1..StreamInfoLen |-> 0]
             head == << byte(shr(meta.minBlock, 8)), byte(meta.minBlock),
                        byte(shr(meta.maxBlock, 8)), byte(meta.maxBlock),
                        byte(shr(meta.minFrame, 16)), byte(shr(meta.minFrame, 8)),
                        byte(meta.minFrame),
                        byte(shr(meta.maxFrame, 16)), byte(shr(meta.maxFrame, 8)),
                        byte(meta.maxFrame) >>
         IN  [e EXCEPT !.streamInfo =
                [i \in 1..StreamInfoLen |->
                    IF i <= 10 THEN head[i]
                    ELSE IF i <= 18 THEN PackedByte(meta, 64 - 8 * (i - 10))
                    ELSE IF i - 18 <= Len(meta.md5) THEN meta.md5[i - 18]
                    ELSE made[i]]]

\* the encoder after NewFlacEncoder (roundtrip_test.go:1420-1447)
NewFlacEncoder == [mu |-> "free", outBuf |-> << >>, streamInfo |-> << >>]

ZeroMD5 == [i \in 1..16 |-> 0]

\* the block of the serializer's test vector
VectorMeta ==
    [type |-> "STREAMINFO", minBlock |-> 4096, maxBlock |-> 4096,
     minFrame |-> 0, maxFrame |-> 0, rate |-> 44100, channels |-> 2, bps |-> 16,
     totalSamples |-> 8192, totalHigh |-> 0, md5 |-> ZeroMD5]

\* the blocks the backend hands to the metadata callback
Metadatas ==
    {VectorMeta}
    \cup [type : {"STREAMINFO", "VORBIS_COMMENT"},
          minBlock : {16, 4608}, maxBlock : {4608, 65535},
          minFrame : {0, 70000}, maxFrame : {70000},
          rate : {22050, 96000, 655350}, channels : {1, 8}, bps : {8, 32},
          totalSamples : {0, 8192, MaxInt}, totalHigh : {0, 21},
          md5 : {ZeroMD5, [i \in 1..16 |-> 16 * i - 1]}]

\* the values tried for a field that are wider than the field: block sizes
\* of 2^16 and more, frame sizes of 2^24 and more, a rate of 2^20 and more,
\* channels outside 1..8, a depth outside 1..32, a total of 2^36 and more
\* (totalHigh counts from bit 31)
WideValues ==
    [minBlock |-> {65536, 69632}, maxBlock |-> {65536, 69632},
     minFrame |-> {16777216, 16777217}, maxFrame |-> {16777216, 16777217},
     rate |-> {1048576, 1092676},
     channels |-> {0, 9}, bps |-> {0, 33}, totalHigh |-> {32, 512}]

\* the blocks with one field wider than its width
WideMetadatas ==
    UNION { UNION { { [meta EXCEPT ![f] = v] : v \in WideValues[f] } :
                    f \in DOMAIN WideValues } :
            meta \in { m \in Metadatas : m.type = "STREAMINFO" } }

InitHeader ==
    /\ DecoderIdle
    /\ enc = NewFlacEncoder
    /\ \E meta \in Metadatas \cup WideMetadatas : encRun = [phase |-> "finishing", meta |-> meta]
    /\ pk = [phase |-> "idle"]
    /\ ring = [phase |-> "idle"]
    /\ rbHist = [phase |-> "idle"]

\* Finish: the backend calls the metadata callback with its block
MetadataCallback ==
    /\ encRun.phase = "finishing"
    /\ enc' = encoderMetadataCallback(enc, encRun.meta)
    /\ encRun' = [encRun EXCEPT !.phase = "finished"]
    /\ UNCHANGED << decVars, pk, ring, rbHist >>

NextHeader == MetadataCallback

SpecHeader == InitHeader /\ [][NextHeader]_vars

\* C19: for minBlock = maxBlock = 4096, minFrame = maxFrame = 0, rate 44100,
\* 2 channels, depth 16, 8192 total samples and a zero checksum, the
\* serialized STREAMINFO block is exactly 34 bytes and its bytes 0-1 are
\* 0x10 0x00.
C19_HeaderVector ==
    (encRun.phase = "finished" /\ encRun.meta = VectorMeta) =>
        /\ Len(enc.streamInfo) = 34
        /\ enc.streamInfo[1] = 16
        /\ enc.streamInfo[2] = 0

\* the vector was serialized: 34 bytes, the packed word 0A C4 42 F0 00 00 20 00
C19_Witness ==
    /\ encRun.phase = "finished"
    /\ encRun.meta = VectorMeta
    /\ Len(enc.streamInfo) = 34
    /\ SubSeq(enc.streamInfo, 1, 4) = << 16, 0, 16, 0 >>
    /\ SubSeq(enc.streamInfo, 11, 18) = << 10, 196, 66, 240, 0, 0, 32, 0 >>

\* the bits of the block each field owns, first and last, bit 0 the top bit
\* of byte 0 (the layout in the comment at roundtrip_test.go:1702-1709)
FieldBits ==
    [minBlock |-> << 0, 15 >>, maxBlock |-> << 16, 31 >>,
     minFrame |-> << 32, 55 >>, maxFrame |-> << 56, 79 >>,
     rate |-> << 80, 99 >>, channels |-> << 100, 102 >>, bps |-> << 103, 107 >>,
     totalHigh |-> << 108, 143 >>]

\* bit k of a block
BlockBit(block, k) == (block[(k \div 8) + 1] \div Pow2(7 - (k % 8))) % 2

\* two blocks agree on every bit that field f does not own
SameOutside(b1, b2, f) ==
    \A k \in 0..(8 * StreamInfoLen - 1) :
        (k < FieldBits[f][1] \/ k > FieldBits[f][2]) => BlockBit(b1, k) = BlockBit(b2, k)

\* field f of the block is wider than its width
IsWide(meta, f) == meta[f] \in WideValues[f]

\* the same block with field f within its width
Narrowed(meta, f) ==
    [meta EXCEPT ![f] = IF f \in {"channels", "bps"} THEN 1 ELSE 0]

\* C30: a field wider than its width changes no bit of the stored block
\* that belongs to another field: the block agrees, outside that field's
\* bits, with the block of the same values with the field within its width.
C30_FieldIsolation ==
    (encRun.phase = "finished" /\ encRun.meta.type = "STREAMINFO") =>
        \A f \in DOMAIN WideValues :
            IsWide(encRun.meta, f) =>
                SameOutside(enc.streamInfo,
                            encoderMetadataCallback(NewFlacEncoder,
                                                    Narrowed(encRun.meta, f)).streamInfo,
                            f)

\* the bits first..last of a block read big-endian as an unsigned number
\* (of at most 31 bits)
RECURSIVE ReadBits(_, _, _)
ReadBits(block, first, last) ==
    IF last < first THEN 0
    ELSE 2 * ReadBits(block, first, last - 1) + BlockBit(block, last)

\* every field of the block is within its width
WithinWidths(meta) ==
    /\ meta.minBlock \in 0..65535 /\ meta.maxBlock \in 0..65535
    /\ meta.minFrame \in 0..16777215 /\ meta.maxFrame \in 0..16777215
    /\ meta.rate \in 0..1048575
    /\ meta.channels \in 1..8 /\ meta.bps \in 1..32
    /\ meta.totalHigh \in 0..31 /\ meta.totalSamples \in 0..MaxInt

\* C31: for field values within their widths, reading the stored block back
\* big-endian yields every input: bytes 0-1 and 2-3 the block sizes, bytes
\* 4-6 and 7-9 the frame sizes, in bytes 10-17 the 20-bit rate, the 3-bit
\* channels-1, the 5-bit depth-1 and the 36-bit total, in bytes 18-33 the
\* 16 checksum bytes; for 44100 Hz, 2 channels, 16 bits (and a total below
\* 2^32) bytes 10-13 are 0A C4 42 F0.
C31_HeaderRoundTrip ==
    (encRun.phase = "finished" /\ encRun.meta.type = "STREAMINFO"
        /\ WithinWidths(encRun.meta)) =>
        LET m == encRun.meta
            b == enc.streamInfo
        IN  /\ Len(b) = StreamInfoLen
            /\ ReadBits(b, 0, 15) = m.minBlock
            /\ ReadBits(b, 16, 31) = m.maxBlock
            /\ ReadBits(b, 32, 55) = m.minFrame
            /\ ReadBits(b, 56, 79) = m.maxFrame
            /\ ReadBits(b, 80, 99) = m.rate
            /\ ReadBits(b, 100, 102) = m.channels - 1
            /\ ReadBits(b, 103, 107) = m.bps - 1
            /\ ReadBits(b, 108, 112) = m.totalHigh
            /\ ReadBits(b, 113, 143) = m.totalSamples
            /\ SubSeq(b, 19, 34) = m.md5
            /\ (m.rate = 44100 /\ m.channels = 2 /\ m.bps = 16 /\ m.totalHigh \in {0, 1}) =>
                    SubSeq(b, 11, 14) = << 10, 196, 66, 240 >>

\* a block with every packed field at the top of its range and a total of
\* more than 32 bits was stored and reads back
C31_Witness ==
    /\ encRun.phase = "finished"
    /\ encRun.meta.type = "STREAMINFO"
    /\ WithinWidths(encRun.meta)
    /\ encRun.meta.channels = 8 /\ encRun.meta.bps = 32
    /\ encRun.meta.totalHigh = 21 /\ encRun.meta.totalSamples = MaxInt
    /\ encRun.meta.maxBlock = 65535 /\ encRun.meta.minFrame = 70000
    /\ encRun.meta.md5 # ZeroMD5
    /\ ReadBits(enc.streamInfo, 100, 107) = 255
    /\ ReadBits(enc.streamInfo, 108, 112) = 21
    /\ ReadBits(enc.streamInfo, 32, 55) = 70000
    /\ SubSeq(enc.streamInfo, 19, 34) = encRun.meta.md5

\* the fields that byte() and the shift past bit 63 truncate
TruncatedFields == {"minBlock", "maxBlock", "minFrame", "maxFrame", "rate"}

\* a block size, a frame size or a rate wider than its field is truncated
\* to it
TruncatedFieldIsolation ==
    (encRun.phase = "finished" /\ encRun.meta.type = "STREAMINFO") =>
        \A f \in TruncatedFields :
            IsWide(encRun.meta, f) =>
                SameOutside(enc.streamInfo,
                            encoderMetadataCallback(NewFlacEncoder,
                                                    Narrowed(encRun.meta, f)).streamInfo,
                            f)

(***************************************************************************)
(* The encoder's output accumulator: the write callback appends to outBuf  *)
(* under mu, TakeBytes takes outBuf under mu.  One goroutine runs the      *)
(* callbacks and one runs TakeBytes, a step at a time.                     *)
(***************************************************************************)
\* the write callbacks and the TakeBytes calls of one run
MaxPushes == 3
MaxDrains == 3
\* the longest buffer one write callback delivers
MaxChunk == 2

\* the bytes of the k-th write callback (from 1), n of them
ChunkBytes(k, n) == [i \in 1..n |-> 16 * k + i]

\* a Lock that never waits
muLock_NoWait(e, who) == TRUE

\* mu.Lock() by `who` can return
muLock(e, who) == e.mu = "free"

InitAccum ==
    /\ DecoderIdle
    /\ enc = NewFlacEncoder
    /\ encRun = [push   |-> [pc |-> "idle", data |-> << >>],
                 drain  |-> [pc |-> "idle", out |-> << >>],
                 pushes |-> << >>,      \* the buffers appended, in order
                 drains |-> << >>,      \* what each TakeBytes returned
                 marks  |-> << >>]      \* the appends done when it returned
    /\ pk = [phase |-> "idle"]
    /\ ring = [phase |-> "idle"]
    /\ rbHist = [phase |-> "idle"]

accumRest == << decVars, pk, ring, rbHist >>

\* encoderWriteCallback: data := C.GoBytes(buffer, bytes)
PushCopy(n) ==
    /\ encRun.push.pc = "idle"
    /\ Len(encRun.pushes) < MaxPushes
    /\ encRun' = [encRun EXCEPT !.push = [pc |-> "copied",
                                          data |-> ChunkBytes(Len(encRun.pushes) + 1, n)]]
    /\ UNCHANGED << enc, accumRest >>

\* enc.mu.Lock()
PushLock ==
    /\ encRun.push.pc = "copied"
    /\ muLock(enc, "push")
    /\ enc' = [enc EXCEPT !.mu = "push"]
    /\ encRun' = [encRun EXCEPT !.push.pc = "locked"]
    /\ UNCHANGED accumRest

\* enc.outBuf = append(enc.outBuf, data...)
PushAppend ==
    /\ encRun.push.pc = "locked"
    /\ enc' = [enc EXCEPT !.outBuf = @ \o encRun.push.data]
    /\ encRun' = [encRun EXCEPT !.push.pc = "appended",
                                !.pushes = Append(@, encRun.push.data)]
    /\ UNCHANGED accumRest

\* enc.mu.Unlock(); return OK
PushUnlock ==
    /\ encRun.push.pc = "appended"
    /\ enc' = [enc EXCEPT !.mu = "free"]
    /\ encRun' = [encRun EXCEPT !.push = [pc |-> "idle", data |-> << >>]]
    /\ UNCHANGED accumRest

\* TakeBytes: e.mu.Lock(); defer e.mu.Unlock()
TakeLock ==
    /\ encRun.drain.pc = "idle"
    /\ Len(encRun.drains) < MaxDrains
    /\ muLock(enc, "drain")
    /\ enc' = [enc EXCEPT !.mu = "drain"]
    /\ encRun' = [encRun EXCEPT !.drain.pc = "locked"]
    /\ UNCHANGED accumRest

\* if len(e.outBuf) == 0 { return nil }, with the deferred Unlock
TakeEmpty ==
    /\ encRun.drain.pc = "locked"
    /\ Len(enc.outBuf) = 0
    /\ enc' = [enc EXCEPT !.mu = "free"]
    /\ encRun' = [encRun EXCEPT !.drain = [pc |-> "idle", out |-> << >>],
                                !.drains = Append(@, [nil |-> TRUE, bytes |-> << >>]),
                                !.marks = Append(@, Len(encRun.pushes))]
    /\ UNCHANGED accumRest

\* out := e.outBuf
TakeOut ==
    /\ encRun.drain.pc = "locked"
    /\ Len(enc.outBuf) # 0
    /\ encRun' = [encRun EXCEPT !.drain = [pc |-> "taken", out |-> enc.outBuf]]
    /\ UNCHANGED << enc, accumRest >>

\* e.outBuf = nil
TakeClear ==
    /\ encRun.drain.pc = "taken"
    /\ enc' = [enc EXCEPT !.outBuf = << >>]
    /\ encRun' = [encRun EXCEPT !.drain.pc = "cleared"]
    /\ UNCHANGED accumRest

\* return out, with the deferred Unlock
TakeReturn ==
    /\ encRun.drain.pc = "cleared"
    /\ enc' = [enc EXCEPT !.mu = "free"]
    /\ encRun' = [encRun EXCEPT !.drain = [pc |-> "idle", out |-> << >>],
                                !.drains = Append(@, [nil |-> FALSE, bytes |-> encRun.drain.out]),
                                !.marks = Append(@, Len(encRun.pushes))]
    /\ UNCHANGED accumRest

NextAccum ==
    \/ \E n \in 0..MaxChunk : PushCopy(n)
    \/ PushLock
    \/ PushAppend
    \/ PushUnlock
    \/ TakeLock
    \/ TakeEmpty
    \/ TakeOut
    \/ TakeClear
    \/ TakeReturn

SpecAccum == InitAccum /\ [][NextAccum]_vars

\* the bytes of a TakeBytes result
DrainBytes(r) == r.bytes

\* the bytes appended and not yet returned by a TakeBytes
AccumPending == IF encRun.drain.pc = "cleared" THEN encRun.drain.out ELSE enc.outBuf

\* C20: under any interleaving of the steps of the write callback and of
\* TakeBytes, each TakeBytes returns exactly the buffers appended since the
\* previous TakeBytes returned, whole and in order, and nil when those hold
\* no byte; the results so far followed by what is still accumulated are the
\* bytes appended so far; and while TakeBytes holds what it took, nothing is
\* appended and nobody else sees it.
C20_DrainExact ==
    /\ Concat([k \in 1..Len(encRun.drains) |-> DrainBytes(encRun.drains[k])])
          \o AccumPending = Concat(encRun.pushes)
    /\ \A k \in 1..Len(encRun.drains) :
          LET from  == IF k = 1 THEN 0 ELSE encRun.marks[k - 1]
              since == Concat(SubSeq(encRun.pushes, from + 1, encRun.marks[k]))
          IN  /\ DrainBytes(encRun.drains[k]) = since
              /\ encRun.drains[k].nil <=> (since = << >>)
    /\ encRun.drain.pc \in {"taken", "cleared"} =>
          /\ enc.mu = "drain"
          /\ encRun.push.pc \in {"idle", "copied"}
    /\ encRun.drain.pc = "taken" => encRun.drain.out = enc.outBuf

\* a TakeBytes returned two appended buffers at once while a write callback
\* was waiting for the lock, after a TakeBytes that found nothing
C20_Witness ==
    /\ Len(encRun.drains) = 2
    /\ encRun.drains[1].nil
    /\ encRun.drains[2] = [nil |-> FALSE, bytes |-> ChunkBytes(1, 2) \o ChunkBytes(2, 1)]
    /\ encRun.marks = << 0, 2 >>
    /\ encRun.push.pc = "copied"
    /\ enc.outBuf = << >>

(***************************************************************************)
(* Close and Open: what they leave behind.                                 *)
(***************************************************************************)
\* rate, channels, bitsPerSample, currentSample and totalSamples are 0, no
\* error is latched
Zeroed(d) ==
    /\ GetFormat(d) = << 0, 0, 0 >>
    /\ TellCurrentSample(d) = 0
    /\ TotalSamples(d) = 0
    /\ d.lastError = "nil"

\* C24: Close may be called in every state of the decoder (never opened,
\* open, failed to open, closed, in the middle of a stream, with an error
\* latched); it returns nil, and afterwards rate, channels, bitsPerSample,
\* currentSample and totalSamples are 0, no error is latched and the ring
\* buffer holds no byte.
C24_CloseAnyState ==
    /\ status = "ok" => (ENABLED Close)
    /\ Zeroed(CloseReset(dec))
    /\ RingReset(ringBuffer) = << >>
    /\ lastCall.op = "close" =>
          /\ lastCall.err = "nil"
          /\ Zeroed(dec)
          /\ ringBuffer = << >>
          /\ AvailableRead(ringBuffer) = 0

\* Close has returned nil and left the decoder zeroed, its ring empty
C24_Witness ==
    /\ lastCall = Call("close", "nil")
    /\ hist = "closed"
    /\ flac.state = "uninit"
    /\ Zeroed(dec)
    /\ dec.outputBytesPerSample = 0
    /\ ringBuffer = << >>

\* C25: whenever Open returns an error (the backend's init fails, or the
\* metadata cannot be processed), GetFormat returns (0, 0, 0), TotalSamples
\* and TellCurrentSample return 0 and the ring buffer is empty; whenever
\* Open returns nil, the format and the total are those of the stream's
\* STREAMINFO, no sample was delivered and TellCurrentSample is 0.
C25_OpenResult ==
    (lastCall.op = "open" /\ status = "ok") =>
        /\ ringBuffer = << >>
        /\ TellCurrentSample(dec) = 0
        /\ IF lastCall.err # "nil"
           THEN /\ GetFormat(dec) = << 0, 0, 0 >>
                /\ TotalSamples(dec) = 0
           ELSE /\ GetFormat(dec) = << stream.rate, stream.channels, stream.bps >>
                /\ TotalSamples(dec) = stream.total
                /\ flac.next = 0

(***************************************************************************)
(* NewFlacFrameDecoder on its own: the depth it is given, what it returns. *)
(***************************************************************************)
\* the depths given to the constructor
TriedDepths == (0 - 8)..64

bitDepths == {8, 16, 24, 32}

\* the constructor accepting every multiple of 8
NewFlacFrameDecoderRet_AnyMultiple(maxOutputSampleBitDepth, alloc) ==
    IF maxOutputSampleBitDepth % 8 # 0
    THEN [nil |-> TRUE, dec |-> [nil |-> TRUE], err |-> "invalid maxOutputSampleBitDepth"]
    ELSE IF alloc = "fail"
    THEN [nil |-> TRUE, dec |-> [nil |-> TRUE], err |-> "failed to create FLAC decoder"]
    ELSE [nil |-> FALSE, dec |-> NewFlacFrameDecoder(maxOutputSampleBitDepth), err |-> "nil"]

\* NewFlacFrameDecoder (flac.go:123-145) with its checks: the depth, then
\* the backend's FLAC__stream_decoder_new (alloc = "fail": it returned NULL)
NewFlacFrameDecoderRet(maxOutputSampleBitDepth, alloc) ==
    IF maxOutputSampleBitDepth \notin bitDepths
    THEN [nil |-> TRUE, dec |-> [nil |-> TRUE], err |-> "invalid maxOutputSampleBitDepth"]
    ELSE IF alloc = "fail"
    THEN [nil |-> TRUE, dec |-> [nil |-> TRUE], err |-> "failed to create FLAC decoder"]
    ELSE [nil |-> FALSE, dec |-> NewFlacFrameDecoder(maxOutputSampleBitDepth), err |-> "nil"]

InitNew ==
    /\ dec = [nil |-> TRUE]
    /\ \E depth \in TriedDepths, alloc \in {"ok", "fail"} :
          lastCall = [op |-> "none", err |-> "nil", depth |-> depth, alloc |-> alloc,
                      nil |-> TRUE]
    /\ ringBuffer = << >>
    /\ flac = [state |-> "uninit", next |-> 0]
    /\ stream = [K |-> 0, B |-> 1, channels |-> 1, bps |-> 16, rate |-> 44100,
                 total |-> 0, fault |-> NoFault]
    /\ hist = "closed"
    /\ status = "ok"
    /\ SideIdle

New ==
    /\ lastCall.op = "none"
    /\ LET r == NewFlacFrameDecoderRet(lastCall.depth, lastCall.alloc)
       IN  /\ dec' = r.dec
           /\ lastCall' = [lastCall EXCEPT !.op = "new", !.err = r.err, !.nil = r.nil]
    /\ UNCHANGED << ringBuffer, flac, stream, hist, status, sideVars >>

NextNew == New

SpecNew == InitNew /\ [][NextNew]_vars

\* C26: NewFlacFrameDecoder(depth) succeeds exactly for depth in
\* {8, 16, 24, 32} (the backend creating its decoder), and the decoder it
\* gives has outputBytesPerSample = depth / 8; for every other depth it
\* returns a nil decoder and a non-nil error.
C26_DepthValidation ==
    lastCall.op = "new" =>
        /\ lastCall.alloc = "ok" =>
              ((lastCall.err = "nil") <=> (lastCall.depth \in {8, 16, 24, 32}))
        /\ lastCall.depth \notin {8, 16, 24, 32} =>
              (lastCall.nil /\ lastCall.err # "nil")
        /\ lastCall.nil <=> (lastCall.err # "nil")
        /\ lastCall.err = "nil" =>
              /\ dec.maxOutputSampleBitDepth = lastCall.depth
              /\ dec.outputBytesPerSample * 8 = lastCall.depth

\* depth 24 gave a decoder of 3 bytes per sample
C26_Witness ==
    /\ lastCall.op = "new"
    /\ lastCall.depth = 24
    /\ lastCall.err = "nil"
    /\ ~lastCall.nil
    /\ dec.outputBytesPerSample = 3

(***************************************************************************)
(* The write callback: bytes per sample, order of the samples.             *)
(***************************************************************************)
\* the frame the backend decodes next on an open stream, fitting the ring
NextFrameFits ==
    /\ status = "ok"
    /\ flac.state = "sync"
    /\ dec.channels > 0
    /\ flac.next < stream.K
    /\ (FrameEnd(stream, flac.next) - flac.next) * dec.channels * 3 <= RingCap

\* C28: for every source depth and every output depth, the write callback
\* appends exactly outputBytesPerSample bytes per sample, so that a frame of
\* B samples on an empty ring buffer gives B buffered sample frames as
\* DecodeSamples counts them (bytes / (channels * outputBytesPerSample)).
C28_BytesPerSample ==
    NextFrameFits =>
        LET count == FrameEnd(stream, flac.next) - flac.next
            w     == decoderWriteCallback(dec, << >>, stream, flac.next, count)
        IN  /\ w.st = "continue"
            /\ Len(w.rb) = count * dec.channels * dec.outputBytesPerSample
            /\ AvailableRead(w.rb) \div (dec.channels * dec.outputBytesPerSample) = count

\* the bytes the write callback writes for one sample
WrittenWidth(d) == Len(SampleBytes(0, d.streamBytesPerSample, d.maxOutputSampleBitDepth))

\* C29: for a decoded frame of B samples and N channels the write callback
\* appends the samples sample by sample and, within a sample, channel by
\* channel: sample i of channel c is at offset (i*N + c)*width of the bytes
\* the frame adds to the ring buffer, for every i < B and c < N; a frame of
\* block size 0 appends nothing and the callback returns "continue".
C29_InterleavingOrder ==
    /\ decoderWriteCallback(dec, ringBuffer, stream, flac.next, 0)
          = [d |-> dec, rb |-> ringBuffer, st |-> "continue"]
    /\ (status = "ok" /\ flac.state = "sync" /\ dec.channels > 0 /\ flac.next < stream.K) =>
          LET count == FrameEnd(stream, flac.next) - flac.next
              N     == dec.channels
              width == WrittenWidth(dec)
              w     == decoderWriteCallback(dec, << >>, stream, flac.next, count)
              w2    == decoderWriteCallback(dec, ringBuffer, stream, flac.next, count)
          IN  /\ count * N * width <= RingCap =>
                    /\ w.st = "continue"
                    /\ Len(w.rb) = count * N * width
                    /\ \A i \in 0..(count - 1), c \in 0..(N - 1) :
                          SubSeq(w.rb, (i * N + c) * width + 1, (i * N + c + 1) * width)
                             = SampleBytes(StreamSample(stream, flac.next + i, c),
                                           dec.streamBytesPerSample,
                                           dec.maxOutputSampleBitDepth)
              /\ (count * N * width <= RingCap /\ w2.st = "continue") =>
                    w2.rb = ringBuffer \o w.rb

\* a frame of 2 samples and 2 channels was written, its first sample
\* delivered: the ring holds the second sample, channel 0 then channel 1
C29_Witness ==
    /\ hist = "opened"
    /\ lastCall = Call("decode", "nil")
    /\ stream.B = 2
    /\ dec.channels = 2
    /\ dec.currentSample = 1
    /\ flac.next = 2
    /\ ringBuffer = SampleBytes(StreamSample(stream, 1, 0), dec.streamBytesPerSample,
                                dec.maxOutputSampleBitDepth)
                    \o SampleBytes(StreamSample(stream, 1, 1), dec.streamBytesPerSample,
                                   dec.maxOutputSampleBitDepth)

(***************************************************************************)
(* The encoder's sessions: NewFlacEncoder, InitFile / InitStream,          *)
(* SetTotalSamplesEstimate, ProcessInterleaved, TakeBytes, Finish, Close.  *)
(* enc is the FlacEncoder struct; encRun.b is the backend's stream encoder *)
(* (its state and the mode it was initialised in); encRun.status is "ok"   *)
(* or how the calling goroutine ended; encRun.last is the last call, its   *)
(* error and whether it reached the backend's process_interleaved.         *)
(***************************************************************************)
\* the bytes outBuf holds at most
MaxAccum == 2

\* the arguments given to NewFlacEncoder
EncRates == {0, 44100, 655351}

EncChannels == {0, 1, 2, 4, 9}

EncDepths == {12, 16}

\* the compression levels given to SetCompressionLevel
EncLevels == {0 - 1, 0, 8, 9}

\* the struct of an encoder that was not created: the nil *FlacEncoder
NoEncoder ==
    [encoder |-> "nil", sampleRate |-> 0, channels |-> 0, bitsPerSample |-> 0,
     compressionLevel |-> 0, initialized |-> FALSE,
     mu |-> NewFlacEncoder.mu, outBuf |-> NewFlacEncoder.outBuf,
     streamInfo |-> NewFlacEncoder.streamInfo]

\* NewFlacEncoder (roundtrip_test.go:1420-1447) with its checks: the rate,
\* the channels, the depth, then the backend's FLAC__stream_encoder_new
\* (alloc = "fail": it returned NULL)
NewFlacEncoderRet(sampleRate, channels, bitsPerSample, alloc) ==
    IF sampleRate < 1 \/ sampleRate > 655350
    THEN [nil |-> TRUE, e |-> NoEncoder, err |-> "invalid sample rate"]
    ELSE IF channels < 1 \/ channels > 8
    THEN [nil |-> TRUE, e |-> NoEncoder, err |-> "invalid channels"]
    ELSE IF bitsPerSample \notin {8, 16, 24, 32}
    THEN [nil |-> TRUE, e |-> NoEncoder, err |-> "invalid bitsPerSample"]
    ELSE IF alloc = "fail"
    THEN [nil |-> TRUE, e |-> NoEncoder, err |-> "failed to create FLAC encoder"]
    ELSE [nil |-> FALSE,
          e |-> [encoder |-> "live", sampleRate |-> sampleRate, channels |-> channels,
                 bitsPerSample |-> bitsPerSample, compressionLevel |-> 5,
                 initialized |-> FALSE,
                 mu |-> NewFlacEncoder.mu, outBuf |-> NewFlacEncoder.outBuf,
                 streamInfo |-> NewFlacEncoder.streamInfo],
          err |-> "nil"]

\* SetCompressionLevel (roundtrip_test.go:1451-1457)
SetCompressionLevelRet(e, level) ==
    IF level < 0 \/ level > 8
    THEN [e |-> e, err |-> "invalid compression level"]
    ELSE [e |-> [e EXCEPT !.compressionLevel = level], err |-> "nil"]

NewBackend == [state |-> "uninit", mode |-> "none"]

\* encoderWriteCallback (roundtrip_test.go:1643-1661), the lock held
\* throughout
encoderWriteCallback(e, data) == [e EXCEPT !.outBuf = @ \o data]

\* the block the backend hands to the metadata callback at finish
FinishMeta(e) ==
    [VectorMeta EXCEPT !.rate = e.sampleRate, !.channels = e.channels,
                       !.bps = e.bitsPerSample]

\* configureEncoder (roundtrip_test.go:1460-1478): the backend's setters
\* refuse unless its state is UNINITIALIZED
configureEncoder(b) == IF b.state = "uninit" THEN "nil" ELSE "failed to set channels"

\* InitFile (roundtrip_test.go:1482-1503); io = "open_error" when the
\* backend cannot open the file
InitFileRet(e, b, io) ==
    IF e.encoder = "nil" THEN [e |-> e, b |-> b, err |-> "encoder not initialized"]
    ELSE IF e.initialized THEN [e |-> e, b |-> b, err |-> "encoder already initialized"]
    ELSE IF configureEncoder(b) # "nil" THEN [e |-> e, b |-> b, err |-> configureEncoder(b)]
    ELSE IF io = "open_error"
    THEN [e |-> e, b |-> [state |-> "error", mode |-> "none"], err |-> "init encoder error"]
    ELSE [e |-> [e EXCEPT !.initialized = TRUE],
          b |-> [state |-> "ok", mode |-> "file"], err |-> "nil"]

\* what the backend's init_stream does: "ok", "init_refused" (it refuses the
\* configuration and stays uninitialised) or "init_error" (it fails on the
\* way and is left in an error state)
InitStreamResults == {"ok", "init_refused", "init_error"}

\* InitStream (roundtrip_test.go:1508-1537); the backend writes the stream
\* header through the write callback
InitStreamRet(e, b, io) ==
    IF e.encoder = "nil" THEN [e |-> e, b |-> b, err |-> "encoder not initialized"]
    ELSE IF e.initialized THEN [e |-> e, b |-> b, err |-> "encoder already initialized"]
    ELSE IF configureEncoder(b) # "nil" THEN [e |-> e, b |-> b, err |-> configureEncoder(b)]
    ELSE IF io = "init_refused"
    THEN [e |-> e, b |-> b, err |-> "init stream encoder error"]
    ELSE IF io = "init_error"
    THEN [e |-> e, b |-> [state |-> "error", mode |-> "none"],
          err |-> "init stream encoder error"]
    ELSE [e |-> [encoderWriteCallback(e, << 102 >>) EXCEPT !.initialized = TRUE],
          b |-> [state |-> "ok", mode |-> "stream"], err |-> "nil"]

\* SetTotalSamplesEstimate (roundtrip_test.go:1542-1551); it does not check
\* e.encoder: on a closed encoder the backend is handed a NULL pointer
SetTotalSamplesEstimateRet(e, b) ==
    IF e.initialized THEN [err |-> "cannot set total samples after initialization", st |-> "ok"]
    ELSE IF e.encoder = "nil" THEN [err |-> "none", st |-> "crash"]
    ELSE IF b.state # "uninit" THEN [err |-> "failed to set total samples estimate", st |-> "ok"]
    ELSE [err |-> "nil", st |-> "ok"]

\* numSamples * channels as Go computes it on an int of 32 bits, for
\* numSamples >= 0: the product wraps
WrapMul(n, m) ==
    LET lo  == (n % 65536) * m
        hi  == ((n \div 65536) * m + (lo \div 65536)) % 65536
        low == lo % 65536
    IN  IF hi >= 32768 THEN (hi - 65536) * 65536 + low ELSE hi * 65536 + low

\* the backend's process_interleaved: it fails when res = "fail" or when its
\* state is not OK; in stream mode it may hand a frame to the write callback
ProcessBackend(e, b, res, wr) ==
    IF b.state # "ok" \/ res = "fail"
    THEN [e |-> e, b |-> [b EXCEPT !.state = "error"], ok |-> FALSE]
    ELSE [e |-> IF b.mode = "stream" /\ wr = 1 THEN encoderWriteCallback(e, << 70 >>) ELSE e,
          b |-> b, ok |-> TRUE]

\* ProcessInterleaved without the check of the initialized flag
ProcessInterleavedRet_NoInitCheck(e, b, len, numSamples, res, wr) ==
    IF numSamples <= 0
    THEN [e |-> e, b |-> b, err |-> "numSamples must be positive", backend |-> FALSE, st |-> "ok"]
    ELSE IF len < WrapMul(numSamples, e.channels)
    THEN [e |-> e, b |-> b, err |-> "samples slice too small", backend |-> FALSE, st |-> "ok"]
    ELSE IF len = 0
    THEN [e |-> e, b |-> b, err |-> "none", backend |-> FALSE, st |-> "panic"]
    ELSE LET r == ProcessBackend(e, b, res, wr)
         IN  [e |-> r.e, b |-> r.b,
              err |-> IF r.ok THEN "nil" ELSE "process interleaved failed",
              backend |-> TRUE, st |-> "ok"]

\* ProcessInterleaved (roundtrip_test.go:1560-1582) with len(samples) = len;
\* &samples[0] panics on an empty slice
ProcessInterleavedRet(e, b, len, numSamples, res, wr) ==
    IF ~e.initialized
    THEN [e |-> e, b |-> b, err |-> "encoder not initialized", backend |-> FALSE, st |-> "ok"]
    ELSE IF numSamples <= 0
    THEN [e |-> e, b |-> b, err |-> "numSamples must be positive", backend |-> FALSE, st |-> "ok"]
    ELSE IF len < WrapMul(numSamples, e.channels)
    THEN [e |-> e, b |-> b, err |-> "samples slice too small", backend |-> FALSE, st |-> "ok"]
    ELSE IF len = 0
    THEN [e |-> e, b |-> b, err |-> "none", backend |-> FALSE, st |-> "panic"]
    ELSE LET r == ProcessBackend(e, b, res, wr)
         IN  [e |-> r.e, b |-> r.b,
              err |-> IF r.ok THEN "nil" ELSE "process interleaved failed",
              backend |-> TRUE, st |-> "ok"]

\* TakeBytes (roundtrip_test.go:1586-1596), the lock held throughout
TakeBytesRet(e) ==
    IF Len(e.outBuf) = 0 THEN [e |-> e, nil |-> TRUE, bytes |-> << >>]
    ELSE [e |-> [e EXCEPT !.outBuf = << >>], nil |-> FALSE, bytes |-> e.outBuf]

\* StreamInfo (roundtrip_test.go:1601-1603); << >> is nil
StreamInfo(e) == e.streamInfo

\* the backend's finish: nothing on an uninitialised encoder; on an encoder
\* in state OK in stream mode the last frame (wr = 1) goes to the write
\* callback and STREAMINFO to the metadata callback.  fres is "ok", or a
\* failure that leaves the backend uninitialised ("fail_reset") or in its
\* error state ("fail_stuck").
FinishBackend(e, b, fres, wr) ==
    IF b.state = "uninit" THEN [e |-> e, b |-> b, ok |-> TRUE]
    ELSE LET live == b.state = "ok" /\ b.mode = "stream"
             e1   == IF live /\ wr = 1 THEN encoderWriteCallback(e, << 76 >>) ELSE e
             e2   == IF live THEN encoderMetadataCallback(e1, FinishMeta(e1)) ELSE e1
         IN  [e |-> e2,
              b |-> IF fres = "fail_stuck" THEN [state |-> "error", mode |-> "none"]
                    ELSE NewBackend,
              ok |-> fres = "ok"]

\* Finish (roundtrip_test.go:1607-1619)
FinishRet(e, b, fres, wr) ==
    IF e.encoder = "nil" THEN [e |-> e, b |-> b, err |-> "encoder not initialized"]
    ELSE LET r == FinishBackend(e, b, fres, wr)
         IN  [e |-> [r.e EXCEPT !.initialized = FALSE], b |-> r.b,
              err |-> IF r.ok THEN "nil" ELSE "encoder finish failed"]

\* Close (roundtrip_test.go:1622-1635): finish if initialized, then delete
CloseRet(e, b, fres, wr) ==
    IF e.encoder = "nil" THEN [e |-> e, b |-> b]
    ELSE LET r == IF e.initialized THEN FinishBackend(e, b, fres, wr)
                  ELSE [e |-> e, b |-> b, ok |-> TRUE]
         IN  [e |-> [r.e EXCEPT !.initialized = FALSE, !.encoder = "nil"],
              b |-> [state |-> "deleted", mode |-> "none"]]

\* len(samples) and numSamples given to ProcessInterleaved
ProcLens == {0, 1, 2, 8}

ProcCounts == {0 - 1, 0, 1, 2, 1073741824, MaxInt}

EncCall(op, err, backend) == [op |-> op, err |-> err, backend |-> backend]

\* the state NewFlacEncoder leaves; encRun.status is "none" when it returned
\* nil: there is no encoder to call
InitEncoder ==
    /\ DecoderIdle
    /\ \E rate \in EncRates, ch \in EncChannels, bits \in EncDepths, alloc \in {"ok", "fail"} :
          LET r == NewFlacEncoderRet(rate, ch, bits, alloc)
          IN  /\ enc = r.e
              /\ encRun = [b |-> IF r.nil THEN [state |-> "none", mode |-> "none"]
                                 ELSE NewBackend,
                           status |-> IF r.nil THEN "none" ELSE "ok",
                           last |-> EncCall("new", r.err, FALSE),
                           finishCalled |-> FALSE, streamed |-> FALSE]
    /\ pk = [phase |-> "idle"]
    /\ ring = [phase |-> "idle"]
    /\ rbHist = [phase |-> "idle"]

encRest == << decVars, pk, ring, rbHist >>

EncInitFile(io) ==
    /\ encRun.status = "ok"
    /\ LET r == InitFileRet(enc, encRun.b, io)
       IN  /\ enc' = r.e
           /\ encRun' = [encRun EXCEPT !.b = r.b, !.last = EncCall("init_file", r.err, FALSE)]
    /\ UNCHANGED encRest

EncInitStream(io) ==
    /\ encRun.status = "ok"
    /\ LET r == InitStreamRet(enc, encRun.b, io)
       IN  /\ Len(r.e.outBuf) <= MaxAccum
           /\ enc' = r.e
           /\ encRun' = [encRun EXCEPT !.b = r.b,
                                       !.last = EncCall("init_stream", r.err, FALSE),
                                       !.streamed = @ \/ r.err = "nil"]
    /\ UNCHANGED encRest

EncSetCompressionLevel(level) ==
    /\ encRun.status = "ok"
    /\ LET r == SetCompressionLevelRet(enc, level)
       IN  /\ enc' = r.e
           /\ encRun' = [encRun EXCEPT !.last = EncCall("set_level", r.err, FALSE)]
    /\ UNCHANGED encRest

EncSetTotalSamplesEstimate ==
    /\ encRun.status = "ok"
    /\ LET r == SetTotalSamplesEstimateRet(enc, encRun.b)
       IN  encRun' = [encRun EXCEPT !.status = r.st,
                                    !.last = EncCall("set_total", r.err, FALSE)]
    /\ UNCHANGED << enc, encRest >>

EncProcessInterleaved(len, numSamples, res, wr) ==
    /\ encRun.status = "ok"
    /\ LET r == ProcessInterleavedRet(enc, encRun.b, len, numSamples, res, wr)
       IN  /\ Len(r.e.outBuf) <= MaxAccum
           /\ enc' = r.e
           /\ encRun' = [encRun EXCEPT !.b = r.b, !.status = r.st,
                                       !.last = EncCall("process", r.err, r.backend)]
    /\ UNCHANGED encRest

EncTakeBytes ==
    /\ encRun.status = "ok"
    /\ enc' = TakeBytesRet(enc).e
    /\ encRun' = [encRun EXCEPT !.last = EncCall("take", "nil", FALSE)]
    /\ UNCHANGED encRest

EncFinish(fres, wr) ==
    /\ encRun.status = "ok"
    /\ LET r == FinishRet(enc, encRun.b, fres, wr)
       IN  /\ Len(r.e.outBuf) <= MaxAccum
           /\ enc' = r.e
           /\ encRun' = [encRun EXCEPT !.b = r.b, !.last = EncCall("finish", r.err, FALSE),
                                       !.finishCalled = TRUE]
    /\ UNCHANGED encRest

EncClose(fres, wr) ==
    /\ encRun.status = "ok"
    /\ LET r == CloseRet(enc, encRun.b, fres, wr)
       IN  /\ Len(r.e.outBuf) <= MaxAccum
           /\ enc' = r.e
           /\ encRun' = [encRun EXCEPT !.b = r.b, !.last = EncCall("close", "nil", FALSE)]
    /\ UNCHANGED encRest

FinishResults == {"ok", "fail_reset", "fail_stuck"}

NextEncoder ==
    \/ \E io \in {"ok", "open_error"} : EncInitFile(io)
    \/ \E io \in InitStreamResults : EncInitStream(io)
    \/ \E level \in EncLevels : EncSetCompressionLevel(level)
    \/ EncSetTotalSamplesEstimate
    \/ \E len \in ProcLens, n \in ProcCounts, res \in {"ok", "fail"}, wr \in {0, 1} :
          EncProcessInterleaved(len, n, res, wr)
    \/ EncTakeBytes
    \/ \E fres \in FinishResults, wr \in {0, 1} : EncFinish(fres, wr)
    \/ \E fres \in FinishResults, wr \in {0, 1} : EncClose(fres, wr)

SpecEncoder == InitEncoder /\ [][NextEncoder]_vars

\* every argument tried on ProcessInterleaved
ProcArgs == ProcLens \X ProcCounts \X {"ok", "fail"} \X {0, 1}

\* C21: in every state where the encoder is not initialized (no InitFile or
\* InitStream has succeeded yet, after Finish, after Close, after an Init
\* that failed) ProcessInterleaved returns an error, whatever its
\* arguments, without calling the backend and without changing anything.
C21_ProcessNeedsInit ==
    /\ encRun.last.op \in {"new", "finish", "close"} => ~enc.initialized
    /\ (encRun.last.op \in {"init_file", "init_stream"}
          /\ encRun.last.err \notin {"nil", "encoder already initialized"}) => ~enc.initialized
    /\ ~enc.initialized =>
          \A a \in ProcArgs :
             LET r == ProcessInterleavedRet(enc, encRun.b, a[1], a[2], a[3], a[4])
             IN  /\ r.err = "encoder not initialized"
                 /\ ~r.backend
                 /\ r.st = "ok"
                 /\ r.e = enc
                 /\ r.b = encRun.b
    /\ (encRun.last.op = "process" /\ encRun.last.err = "encoder not initialized") =>
          (~encRun.last.backend /\ ~enc.initialized)

\* ProcessInterleaved was refused after a stream session was finished
C21_Witness ==
    /\ encRun.last = EncCall("process", "encoder not initialized", FALSE)
    /\ encRun.finishCalled
    /\ encRun.streamed
    /\ enc.encoder = "live"
    /\ StreamInfo(enc) # << >>

\* On an initialized encoder InitFile and InitStream return an error and
\* change nothing, so the session in progress stays, and
\* SetTotalSamplesEstimate returns an error; Finish on a live encoder clears
\* the initialized flag whatever the backend's finish returned, and once the
\* backend is back in its uninitialised state InitFile and InitStream succeed
\* again.
SessionExclusive ==
    /\ enc.initialized =>
          /\ enc.encoder = "live"
          /\ encRun.b.mode \in {"file", "stream"}
          /\ \A io \in {"ok", "open_error"} :
                InitFileRet(enc, encRun.b, io)
                   = [e |-> enc, b |-> encRun.b, err |-> "encoder already initialized"]
          /\ \A io \in InitStreamResults :
                InitStreamRet(enc, encRun.b, io)
                   = [e |-> enc, b |-> encRun.b, err |-> "encoder already initialized"]
          /\ SetTotalSamplesEstimateRet(enc, encRun.b)
                = [err |-> "cannot set total samples after initialization", st |-> "ok"]
    /\ enc.encoder = "live" =>
          \A fres \in FinishResults, wr \in {0, 1} :
             LET r == FinishRet(enc, encRun.b, fres, wr)
             IN  /\ ~r.e.initialized
                 /\ fres = "ok" => (r.err = "nil" /\ r.b = NewBackend)
                 /\ r.b.state = "uninit" =>
                       /\ InitStreamRet(r.e, r.b, "ok").err = "nil"
                       /\ InitStreamRet(r.e, r.b, "ok").e.initialized
                       /\ InitFileRet(r.e, r.b, "ok").err = "nil"
                       /\ InitFileRet(r.e, r.b, "ok").e.initialized
    /\ (encRun.last.op = "finish" /\ enc.encoder = "live") => ~enc.initialized
    /\ (encRun.last.op \in {"init_file", "init_stream"} /\ encRun.last.err = "nil")
          => enc.initialized

\* after a stream session was finished, a file session was started on the
\* same encoder
SessionRestarted ==
    /\ encRun.last = EncCall("init_file", "nil", FALSE)
    /\ encRun.finishCalled
    /\ encRun.streamed
    /\ enc.initialized
    /\ encRun.b = [state |-> "ok", mode |-> "file"]

\* the encoder can be initialized again: with a file that opens and a
\* backend that accepts the stream, InitFile and InitStream return nil and
\* set the initialized flag
CanInitAgain(e, b) ==
    /\ InitStreamRet(e, b, "ok").err = "nil"
    /\ InitStreamRet(e, b, "ok").e.initialized
    /\ InitFileRet(e, b, "ok").err = "nil"
    /\ InitFileRet(e, b, "ok").e.initialized

\* C22: at most one encoding session is active.  On an initialized encoder
\* InitFile and InitStream return an error and leave it initialized with the
\* first session, and SetTotalSamplesEstimate returns an error; after Finish
\* on a live encoder, whether the backend's finish succeeded or not, the
\* initialized flag is false and the encoder can be initialized again.
C22_OneSession ==
    /\ enc.initialized =>
          /\ \A io \in {"ok", "open_error"} :
                InitFileRet(enc, encRun.b, io)
                   = [e |-> enc, b |-> encRun.b, err |-> "encoder already initialized"]
          /\ \A io \in InitStreamResults :
                InitStreamRet(enc, encRun.b, io)
                   = [e |-> enc, b |-> encRun.b, err |-> "encoder already initialized"]
          /\ SetTotalSamplesEstimateRet(enc, encRun.b).err # "nil"
    /\ enc.encoder = "live" =>
          \A fres \in FinishResults, wr \in {0, 1} :
             LET r == FinishRet(enc, encRun.b, fres, wr)
             IN  /\ ~r.e.initialized
                 /\ CanInitAgain(r.e, r.b)

\* a Finish whose backend call failed was followed by an InitStream that
\* the backend's setters refused
FinishFailedThenInitRefused ==
    /\ encRun.last = EncCall("init_stream", "failed to set channels", FALSE)
    /\ encRun.finishCalled
    /\ encRun.streamed
    /\ enc.encoder = "live"
    /\ ~enc.initialized
    /\ encRun.b.state = "error"

\* len(samples) is smaller than numSamples * channels, the product taken
\* over the integers
SliceTooSmall(len, numSamples, channels) ==
    IF ExceedsMaxInt(numSamples, channels) THEN TRUE ELSE len < numSamples * channels

\* C23: on an initialized encoder ProcessInterleaved(samples, numSamples)
\* returns an error without calling the backend whenever numSamples <= 0 or
\* len(samples) is smaller than numSamples * channels taken over the
\* integers, also when that product does not fit in an int.
C23_ProcessValidation ==
    enc.initialized =>
        \A a \in ProcArgs :
           LET r == ProcessInterleavedRet(enc, encRun.b, a[1], a[2], a[3], a[4])
           IN  (a[2] <= 0 \/ SliceTooSmall(a[1], a[2], enc.channels)) =>
                  /\ r.st = "ok"
                  /\ r.err \notin {"nil", "none"}
                  /\ ~r.backend
                  /\ r.e = enc
                  /\ r.b = encRun.b

\* the same for the counts whose product with the channels fits in an int
ProcessValidationInRange ==
    enc.initialized =>
        \A a \in ProcArgs :
           LET r == ProcessInterleavedRet(enc, encRun.b, a[1], a[2], a[3], a[4])
           IN  /\ (a[2] <= 0 \/ (~ExceedsMaxInt(a[2], enc.channels)
                                   /\ a[1] < a[2] * enc.channels)) =>
                     (r.st = "ok" /\ r.err \notin {"nil", "none"} /\ ~r.backend)
               /\ (a[2] > 0 /\ ~ExceedsMaxInt(a[2], enc.channels)
                     /\ a[1] >= a[2] * enc.channels) => (r.backend /\ r.st = "ok")

\* C27: StreamInfo returns nil as long as Finish has not been called or the
\* encoder has not been in stream mode; once a Finish in stream mode has
\* delivered STREAMINFO to the metadata callback it returns a block of
\* exactly 34 bytes; a metadata callback with a block of any other type
\* leaves the stored block as it is.
C27_StreamInfo ==
    /\ (~encRun.finishCalled \/ ~encRun.streamed) => StreamInfo(enc) = << >>
    /\ StreamInfo(enc) # << >> => Len(StreamInfo(enc)) = 34
    /\ (enc.encoder = "live" /\ encRun.b = [state |-> "ok", mode |-> "stream"]) =>
          \A fres \in FinishResults, wr \in {0, 1} :
             Len(StreamInfo(FinishRet(enc, encRun.b, fres, wr).e)) = 34
    /\ encoderMetadataCallback(enc, [FinishMeta(enc) EXCEPT !.type = "VORBIS_COMMENT"]) = enc

\* the same with the backend's finish counted whoever runs it, Finish or
\* Close
StreamInfoAfterBackendFinish ==
    /\ ~encRun.streamed => StreamInfo(enc) = << >>
    /\ (encRun.b.state = "ok" /\ encRun.b.mode = "stream" /\ ~encRun.finishCalled)
          => StreamInfo(enc) = << >>
    /\ StreamInfo(enc) # << >> => Len(StreamInfo(enc)) = 34
    /\ encoderMetadataCallback(enc, [FinishMeta(enc) EXCEPT !.type = "VORBIS_COMMENT"]) = enc

(***************************************************************************)
(* The latch between calls.                                                *)
(***************************************************************************)
\* C32: an error latched by a callback while no DecodeSamples call is
\* running (during Open's metadata processing or during Seek) stays latched
\* until it is returned: the next DecodeSamples call that passes validation
\* returns it, and no call within the open session (a refused
\* DecodeSamples, a Seek) empties the latch unless the latch's error is what
\* the call returns.
C32_LatchedErrorReturned ==
    (status = "ok" /\ hist \in {"opened", "sought"} /\ dec.lastError # "nil") =>
        /\ \A samples \in ((0 - 1)..MaxReq) \cup {MaxInt} :
              \A audioLen \in AudioLens(dec, samples) :
                 LET r == DecodeSamplesRet(dec, ringBuffer, flac, stream, samples, audioLen)
                 IN  r.end = "ok" =>
                        /\ r.d.lastError = "nil" => r.err = dec.lastError
                        /\ (samples \in 1..MaxReq /\ audioLen >= bytesRequired(dec, samples))
                              => r.err = dec.lastError
        /\ \A a \in SeekArgs, ev \in SeekEvents :
              LET k == SeekRet(dec, ringBuffer, flac, stream, a[2], a[1], ev)
              IN  k.d.lastError = "nil" => k.err = dec.lastError

(***************************************************************************)
(* A failure of the backend's decode-one-frame call.                       *)
(***************************************************************************)
\* the destination filled so far by a call that has delivered n samples
Delivered(d, n) == [i \in 1..(n * d.channels * d.outputBytesPerSample) |-> 0]

\* C33: when the backend's decode-one-frame call fails with no error latched
\* and the backend not at end of stream, DecodeSamples returns an error that
\* is neither nil nor io.EOF and carries the backend's state, with the count
\* of the samples delivered so far in the call; a call returns io.EOF only
\* with the backend at end of stream, the ring buffer empty and a count of 0.
C33_BackendFailure ==
    (status = "ok" /\ dec.channels > 0 /\ dec.outputBytesPerSample > 0) =>
        \A samples \in 1..MaxReq :
            \A audioLen \in LargeEnough(dec, samples) :
                LET r == DecodeSamplesRet(dec, ringBuffer, flac, stream, samples, audioLen)
                    d0 == [dec EXCEPT !.lastError = "nil"]
                    p == ProcessSingle(d0, ringBuffer, flac, stream)
                    failed == /\ p.res = 0
                              /\ p.d.lastError = "nil"
                              /\ p.f.state # "eos"
                IN  /\ (r.end = "ok" /\ r.err = "EOF") =>
                          /\ r.f.state = "eos"
                          /\ r.rb = << >>
                          /\ r.n = 0
                    \* the first thing the call does is to ask for a frame
                    /\ (CallsBackendFirst(samples) /\ failed) =>
                          /\ r.err = "decode samples error: " \o p.f.state
                          /\ r.n = 0
                          /\ r.end = "ok"
                    \* an iteration of the loop that asks for a frame after
                    \* the call delivered some samples
                    /\ \A done \in 1..(MaxReq - 1) :
                          (CallsBackendFirst(samples) /\ failed) =>
                             LET q == DecodeLoop(d0, ringBuffer, flac, stream, samples, done,
                                                 Delivered(dec, done), 0,
                                                 audioLen + Len(Delivered(dec, done)))
                             IN  /\ q.err = "decode samples error: " \o p.f.state
                                 /\ q.n = done
                                 /\ q.audio = Delivered(dec, done)
                                 /\ q.d.currentSample = dec.currentSample

\* a call returned the backend's failure with its state: the backend
\* aborted on a frame it could not decode
C33_Witness ==
    /\ lastCall = Call("decode", "decode samples error: aborted")
    /\ flac.state = "aborted"
    /\ stream.fault.kind = "fail"
    /\ dec.lastError = "nil"
    /\ status = "ok"

(***************************************************************************)
(* The position.                                                           *)
(***************************************************************************)
\* C34: the position is 0 after an Open that reached its reset (any but the
\* one refused on a deleted decoder); every DecodeSamples call that returns
\* n, with or without an error, advances currentSample by exactly n (so the
\* position is the last Seek target plus the counts returned since); a call
\* that fails validation returns 0 and leaves it unchanged; a Seek that
\* succeeds sets it to its target and a Seek that fails leaves it unchanged.
C34_PositionBookkeeping ==
    status = "ok" =>
        /\ (lastCall.op = "open" /\ lastCall.err # "decoder not initialized")
              => TellCurrentSample(dec) = 0
        /\ \A samples \in ((0 - 1)..MaxReq) \cup {MaxInt} :
              \A audioLen \in AudioLens(dec, samples) :
                 LET r == DecodeSamplesRet(dec, ringBuffer, flac, stream, samples, audioLen)
                 IN  r.end = "ok" =>
                        /\ TellCurrentSample(r.d) = TellCurrentSample(dec) + r.n
                        /\ r.n >= 0
                        /\ r.calls = 0 /\ r.rb = ringBuffer => r.n = 0
        /\ \A a \in SeekArgs, ev \in SeekEvents :
              LET k == SeekRet(dec, ringBuffer, flac, stream, a[2], a[1], ev)
              IN  /\ k.err # "nil" =>
                        /\ TellCurrentSample(k.d) = TellCurrentSample(dec)
                        /\ k.n = TellCurrentSample(dec)
                  /\ k.err = "nil" =>
                        /\ TellCurrentSample(k.d) = seekSample(dec, a[2], a[1])
                        /\ k.n = seekSample(dec, a[2], a[1])

\* after a Seek to sample 1 of a stream of frames of one sample, a call
\* delivered the rest of the stream: the position is 1 plus the count
C34_Witness ==
    /\ hist = "sought"
    /\ lastCall = Call("decode", "nil")
    /\ stream.K = MaxSamples
    /\ stream.B = 1
    /\ TellCurrentSample(dec) = MaxSamples
    /\ flac.next = MaxSamples
    /\ AvailableRead(ringBuffer) = 0
    /\ status = "ok"

(***************************************************************************)
(* Whole frames in the ring buffer.  The write callback writes one sample  *)
(* at a time; with 3 channels of 2 bytes a multi-channel frame is 6 bytes  *)
(* and the ring's capacity is not a multiple of it (as 65536 is no         *)
(* multiple of 6).                                                         *)
(***************************************************************************)
\* the fault-free 16-bit streams of 3 channels
ThreeChannelStreams ==
    UNION { { [K |-> K, B |-> B, channels |-> 3, bps |-> 16, rate |-> r,
               total |-> t, fault |-> NoFault] :
                B \in BlockSizes(K), r \in Rates, t \in {K, 0} }
            : K \in 1..MaxSamples }

\* a decoder created for 16 bits and a 3-channel file
InitThreeChannels ==
    /\ dec = NewFlacFrameDecoder(16)
    /\ stream \in ThreeChannelStreams
    /\ ringBuffer = << >>
    /\ flac = [state |-> "uninit", next |-> 0]
    /\ lastCall = Call("new", "nil")
    /\ hist = "closed"
    /\ status = "ok"
    /\ SideIdle

SpecThreeChannels == InitThreeChannels /\ [][Next]_vars

\* C35: whenever DecodeSamples inspects or reads the ring buffer (the
\* format is known, so the call passes validation), the number of buffered
\* bytes is a whole multiple of channels * outputBytesPerSample, in every
\* reachable state, a state after a write callback that aborted part-way
\* through a frame included.
C35_WholeFrames ==
    (status = "ok" /\ dec.channels > 0 /\ dec.outputBytesPerSample > 0) =>
        AvailableRead(ringBuffer) % (dec.channels * dec.outputBytesPerSample) = 0

(***************************************************************************)
(* The ring buffer across a Seek that fails.                               *)
(***************************************************************************)
\* C36: a Seek that fails, whether refused by the validation or failed by
\* the backend's absolute seek, leaves the buffered unread bytes as they
\* were before the call (and the position with them), so that the next
\* sample delivered is still the one at currentSample.
C36_FailedSeekKeepsBuffer ==
    status = "ok" =>
        \A a \in SeekArgs, ev \in SeekEvents :
            LET k == SeekRet(dec, ringBuffer, flac, stream, a[2], a[1], ev)
            IN  k.err # "nil" =>
                   /\ k.rb = ringBuffer
                   /\ TellCurrentSample(k.d) = TellCurrentSample(dec)

(***************************************************************************)
(* Open and the backend's init status.                                     *)
(***************************************************************************)
\* C37: for every init status other than OK that the backend returns
\* (error opening file; already initialized, when Open is called on a
\* decoder that is already open) Open returns an error value: the lookup of
\* the status string stays inside its table and Open never faults.
C37_OpenNeverFaults ==
    lastCall.op = "open" =>
        /\ lastCall.err # "panic"
        /\ status = "ok"

(***************************************************************************)
(* The encoder after Close released the backend object.                    *)
(***************************************************************************)
\* C38: once Close has set the encoder's handle field to nil, no later call
\* of InitFile, InitStream, SetTotalSamplesEstimate, ProcessInterleaved,
\* Finish or Close hands the nil object to the backend or releases anything
\* a second time: each returns an error (Close: nothing) and leaves the
\* encoder and the backend as they are.
C38_ReleasedEncoder ==
    (encRun.status = "ok" /\ enc.encoder = "nil") =>
        LET b == encRun.b
        IN  /\ \A io \in {"ok", "open_error"} :
                  /\ InitFileRet(enc, b, io).err # "nil"
                  /\ InitFileRet(enc, b, io).b = b
            /\ \A io \in InitStreamResults :
                  /\ InitStreamRet(enc, b, io).err # "nil"
                  /\ InitStreamRet(enc, b, io).b = b
            /\ SetTotalSamplesEstimateRet(enc, b).st = "ok"
            /\ SetTotalSamplesEstimateRet(enc, b).err # "nil"
            /\ \A a \in ProcArgs, res \in {"ok", "fail"}, wr \in {0, 1} :
                  LET r == ProcessInterleavedRet(enc, b, a[1], a[2], res, wr)
                  IN  r.st = "ok" /\ r.err # "nil" /\ ~r.backend /\ r.b = b
            /\ \A fres \in FinishResults, wr \in {0, 1} :
                  /\ FinishRet(enc, b, fres, wr).err # "nil"
                  /\ FinishRet(enc, b, fres, wr).b = b
                  /\ CloseRet(enc, b, fres, wr) = [e |-> enc, b |-> b]

\* the decoder's half: once Delete has set d.decoder to nil, Open returns an
\* error and changes nothing, Close returns nil, and neither DecodeSamples
\* with valid arguments, nor Seek to a valid target, nor a second Delete
\* ends the goroutine
ReleasedDecoder ==
    (status = "ok" /\ flac.state = "deleted") =>
        /\ lastCall.op = "open" => lastCall.err = "decoder not initialized"
        /\ \A samples \in 1..MaxReq :
              DecodeSamplesRet(dec, ringBuffer, flac, stream, samples,
                               samples * dec.channels * dec.outputBytesPerSample).end = "ok"
        /\ \A a \in SeekArgs :
              SeekRet(dec, ringBuffer, flac, stream, a[2], a[1], "ok").end = "ok"

\* the same for Delete called twice: the second call does not panic
ReleasedDecoderDeletedOnce ==
    lastCall.op = "delete" => status = "ok"

(***************************************************************************)
(* Sample widths outside 1..4 bytes: the write callback's default case and *)
(* PCMToInt32 at a depth that is not 8, 16, 24 or 32.                      *)
(***************************************************************************)
\* PCMToInt32 (roundtrip_test.go:1767-1798) with the slice it writes to: the
\* count returned and out afterwards.  A depth below 8 divides by zero; a
\* depth of 40 or more matches no case of the switch.
PCMToInt32Ret(pcm, bitsPerSample, out) ==
    LET bytesPerSample == bitsPerSample \div 8
    IN  IF bytesPerSample = 0
        THEN [n |-> 0, out |-> out, st |-> "panic"]
        ELSE LET numSamples == Min(Len(pcm) \div bytesPerSample, Len(out))
             IN  [n |-> numSamples,
                  out |-> [i \in 1..Len(out) |->
                             IF i <= numSamples /\ bytesPerSample \in 1..4
                             THEN PCMSample(pcm, (i - 1) * bytesPerSample, bytesPerSample)
                             ELSE out[i]],
                  st |-> "ok"]

\* the depths PCMToInt32 is tried with, the stream widths the write callback
\* is tried with, and the lengths of the PCM data
OddDepths == {0, 4, 8, 12, 16, 20, 24, 32, 40, 64}
OddWidths == {0, 1, 2, 3, 4, 5, 8}
MaxPcm == 10

\* out before the call: no sample is 77 or 78 after a conversion of
\* DataBytes
OutBefore == << 77, 78 >>

\* a decoder whose stream has ch channels of w bytes per sample
WidthDecoder(w, ch) ==
    [NewFlacFrameDecoder(16) EXCEPT !.channels = ch, !.bitsPerSample = 8 * w,
                                    !.streamBytesPerSample = w]

WidthStream(ch) ==
    [K |-> MaxSamples, B |-> MaxBlock, channels |-> ch, bps |-> 16, rate |-> 44100,
     total |-> MaxSamples, fault |-> NoFault]

InitWidths ==
    /\ DecoderIdle
    /\ \E len \in 0..MaxPcm, bits \in OddDepths, w \in OddWidths, ch \in ChannelCounts :
          pk = [phase |-> "in", pcm |-> DataBytes(1, len), bits |-> bits,
                w |-> w, ch |-> ch]
    /\ ring = [phase |-> "idle"]
    /\ rbHist = [phase |-> "idle"]
    /\ enc = [phase |-> "idle"]
    /\ encRun = [phase |-> "idle"]

\* PCMToInt32(pcm, bits, out)
ConvertPCM ==
    /\ pk.phase = "in"
    /\ LET r == PCMToInt32Ret(pk.pcm, pk.bits, OutBefore)
       IN  pk' = [phase |-> "converted", pcm |-> pk.pcm, bits |-> pk.bits,
                  n |-> r.n, out |-> r.out, st |-> r.st]
    /\ UNCHANGED << decVars, ring, rbHist, enc, encRun >>

\* the write callback for a frame of one sample, the ring holding two bytes
WriteWidth ==
    /\ pk.phase = "in"
    /\ LET r == decoderWriteCallback(WidthDecoder(pk.w, pk.ch), << 1, 2 >>,
                                     WidthStream(pk.ch), 0, 1)
       IN  pk' = [phase |-> "written", w |-> pk.w, ch |-> pk.ch,
                  st |-> r.st, lastError |-> r.d.lastError, rb |-> r.rb]
    /\ UNCHANGED << decVars, ring, rbHist, enc, encRun >>

NextWidths == ConvertPCM \/ WriteWidth

SpecWidths == InitWidths /\ [][NextWidths]_vars

\* C39: a sample width outside 1..4 bytes is never silently accepted: the
\* write callback with such a stream width latches an error and aborts
\* without writing a byte, and PCMToInt32 with a depth other than 8, 16, 24
\* or 32 does not return a count of converted samples while leaving the
\* output as it was.
C39_OddWidthFailsFast ==
    /\ (pk.phase = "written" /\ pk.w \notin {1, 2, 3, 4}) =>
          /\ pk.st = "abort"
          /\ pk.lastError # "nil"
          /\ pk.rb = << 1, 2 >>
    /\ (pk.phase = "converted" /\ pk.bits \notin {8, 16, 24, 32}) =>
          ~(pk.st = "ok" /\ pk.n > 0 /\ pk.out = OutBefore)

\* the write callback's half: a stream width outside 1..4 aborts with the
\* error latched and nothing written
OddWidthAborts ==
    (pk.phase = "written" /\ pk.w \notin {1, 2, 3, 4}) =>
        /\ pk.st = "abort"
        /\ pk.lastError = "unsupported stream bytes per sample"
        /\ pk.rb = << 1, 2 >>

(***************************************************************************)
(* End of stream.                                                          *)
(***************************************************************************)
\* While the backend object lives: once DecodeSamples has returned
\* (0, io.EOF) the backend is at end of stream with nothing buffered, and in
\* such a state every DecodeSamples call with valid arguments returns
\* (0, io.EOF) and changes neither currentSample nor the ring buffer (calls
\* with invalid arguments change nothing); io.EOF never comes with a
\* positive count; and a call in which a callback latched an error, or the
\* backend failed in a state other than end of stream, never returns io.EOF.
EndOfStreamWhileLive ==
    status = "ok" =>
        /\ lastCall = Call("decode", "EOF") =>
              /\ flac.state = "eos"
              /\ AvailableRead(ringBuffer) = 0
              /\ dec.channels > 0 /\ dec.outputBytesPerSample > 0
        /\ \A samples \in ((0 - 1)..MaxReq) \cup {MaxInt} :
              \A audioLen \in AudioLens(dec, samples) :
                 LET r == DecodeSamplesRet(dec, ringBuffer, flac, stream, samples, audioLen)
                     valid == /\ samples \in 1..MaxReq
                              /\ dec.channels > 0 /\ dec.outputBytesPerSample > 0
                              /\ audioLen >= bytesRequired(dec, samples)
                     p == ProcessSingle([dec EXCEPT !.lastError = "nil"], ringBuffer,
                                        flac, stream)
                 IN  /\ (valid /\ flac.state = "eos" /\ AvailableRead(ringBuffer) = 0) =>
                           /\ r.n = 0
                           /\ r.err = "EOF"
                           /\ r.end = "ok"
                           /\ TellCurrentSample(r.d) = TellCurrentSample(dec)
                           /\ r.rb = ringBuffer
                           /\ r.f = flac
                           /\ r.calls = 0
                     /\ (~valid /\ samples <= MaxReq) =>
                           /\ r.err \notin {"nil", "EOF"}
                           /\ r.d = dec /\ r.rb = ringBuffer /\ r.f = flac
                     /\ r.err = "EOF" =>
                           /\ r.n = 0
                           /\ r.f.state = "eos"
                           /\ r.d.lastError = "nil"
                     /\ (valid /\ CallsBackendFirst(samples)
                            /\ (p.d.lastError # "nil" \/ (p.res = 0 /\ p.f.state # "eos"))) =>
                           r.err # "EOF"

\* DecodeSamples with valid arguments returns (0, io.EOF) and changes
\* neither currentSample nor the ring buffer
ReturnsEOFAgain ==
    /\ status = "ok"
    /\ dec.channels > 0 /\ dec.outputBytesPerSample > 0
    /\ \A samples \in 1..MaxReq :
          \A audioLen \in LargeEnough(dec, samples) :
             LET r == DecodeSamplesRet(dec, ringBuffer, flac, stream, samples, audioLen)
             IN  /\ r.n = 0
                 /\ r.err = "EOF"
                 /\ r.end = "ok"
                 /\ TellCurrentSample(r.d) = TellCurrentSample(dec)
                 /\ r.rb = ringBuffer

\* C40: once DecodeSamples has returned (0, io.EOF), every later
\* DecodeSamples call with valid arguments returns (0, io.EOF) again and
\* changes neither currentSample nor the ring buffer, until Seek, Close or
\* Open is called: the state after such a return has the property, and so
\* has the state after a call other than Seek, Close and Open made there.
C40_EndOfStreamStable ==
    /\ [](lastCall = Call("decode", "EOF") => ReturnsEOFAgain)
    /\ [][(lastCall = Call("decode", "EOF")
             /\ lastCall'.op \notin {"seek", "close", "open"})
             => ReturnsEOFAgain']_vars

=============================================================================
